---- MODULE Spec2Model ----
(***************************************************************************)
(* Model of the concurrent stage orchestration of the composition service: *)
(* Composion::parse_task (composion.cpp) running on N request threads, and *)
(* std::ThreadPool (threadpool.hpp) with its worker loop, commit and        *)
(* destructor.                                                              *)
(***************************************************************************)
EXTENDS Integers, Sequences, FiniteSets, TLC

\* ------------------------------------------------------------------ bounds
\* number of concurrently executing parse_task calls
NReq == 2
\* number of threads that call the BufferedProducer, and of messages they
\* create
NThreads == 2
MaxMsgs == 2
\* largest size of img_list / text_poly that text detection yields
MaxCrops == 1
\* largest worker count given to the ThreadPool constructor in PoolSpec
MaxWorkers == 2

\* ------------------------------------------------------- program constants
MAX_THREAD_NUM == 100
\* the argument of `new std::ThreadPool(1)` in Composion::_init
PoolArg == 1

Requests == 1..NReq
KThreads == 1..NThreads

\* status codes a detection() call may return: 0 is success, the headers
\* document negative failures, the code tests only `!= 0`
Statuses == {0, -1, 1}

\* the four inference resources and their mutex members of Composion
Resources == {"m_yolov5", "m_det", "m_rec_old", "m_rec_new"}

MutexOf(res) ==
    CASE res = "m_yolov5"  -> "m_det_yolov5_mutex"
      [] res = "m_det"     -> "m_det_new_mutex"
      [] res = "m_rec_old" -> "m_rec_old_mutex"
      [] res = "m_rec_new" -> "m_rec_new_mutex"

Mutexes == {MutexOf(res) : res \in Resources}

NoThread == <<"none", 0>>
ReqThread(r) == <<"req", r>>
WrkThread(w) == <<"wrk", w>>

\* ------------------------------------------------------------ Json values
\* A Json::Value: its type and its content (the members of an object as a
\* function of the keys, the elements of an array as a sequence).
JNull == [t |-> "null", v |-> 0]
JStr(s) == [t |-> "str", v |-> s]
JNum(n) == [t |-> "num", v |-> n]
JArr(s) == [t |-> "arr", v |-> s]
JObj(f) == [t |-> "obj", v |-> f]
NoMembers == [k \in {} |-> JNull]

Members(j) == IF j.t = "obj" THEN j.v ELSE NoMembers
Elems(j) == IF j.t = "arr" THEN j.v ELSE <<>>
\* Json::Value::size
Size(j) ==
    IF j.t = "obj" THEN Cardinality(DOMAIN j.v)
    ELSE IF j.t = "arr" THEN Len(j.v) ELSE 0
\* Json::Value::isMember
Has(j, k) == j.t = "obj" /\ k \in DOMAIN j.v
\* the value of j[k]; a missing member reads as null
Get(j, k) == IF Has(j, k) THEN j.v[k] ELSE JNull
\* j[k] = x; a null j becomes an object
Put(j, k, x) ==
    JObj([m \in DOMAIN Members(j) \cup {k} |->
            IF m = k THEN x ELSE Members(j)[m]])
\* the non-const j[k] alone: it makes the member, null, when it is missing
Touch(j, k) == Put(j, k, Get(j, k))
\* j[i - 1]; an element past the end reads as null
Index(j, i) == IF j.t = "arr" /\ i <= Len(j.v) THEN j.v[i] ELSE JNull
\* Json::Value::append
AppendTo(j, x) == JArr(Append(Elems(j), x))
\* Json::Value::asString: it throws for an object or an array, and gives
\* the empty string for null
AsStringThrows(j) == j.t \in {"obj", "arr"}
AsStringEmpty(j) == j.t = "null" \/ (j.t = "str" /\ j.v = "")

\* ------------------------------------------------- recognizer output text
\* The text a recognizer hands back: kind "empty" is the empty string,
\* "invalid" a text Json::Reader::parse rejects, "json" a text that parses
\* to root.
DocEmpty   == [kind |-> "empty",   root |-> JNull]
DocInvalid == [kind |-> "invalid", root |-> JNull]
DocJson(root) == [kind |-> "json", root |-> root]

\* a title or a line: an object with a text and the data of n characters
\* (position, one box point, one candidate with its confidence each)
CharPos(n) == JArr([i \in 1..n |-> JArr(<<JNum(i), JNum(i)>>)])
CharBox(n) == JArr([i \in 1..n |-> JArr(<<JArr(<<JNum(i), JNum(i)>>)>>)])
CharArr(n) == JArr([i \in 1..n |-> JArr(<<JArr(<<JStr("s"), JNum(9)>>)>>)])
TextObj(text, n) ==
    JObj([k \in {"text", "char_pos", "char_box", "char_arr"} |->
            CASE k = "text"     -> text
              [] k = "char_pos" -> CharPos(n)
              [] k = "char_box" -> CharBox(n)
              [] k = "char_arr" -> CharArr(n)])
\* the same without a text member
NoTextObj(n) ==
    JObj([k \in {"char_pos", "char_box", "char_arr"} |->
            CASE k = "char_pos" -> CharPos(n)
              [] k = "char_box" -> CharBox(n)
              [] k = "char_arr" -> CharArr(n)])
\* the root object with the given title and texts members
RootObj(title, texts) == JObj([k \in {"title", "texts"} |->
                                 IF k = "title" THEN title ELSE texts])

\* a document with a title and one paragraph of one line, each with the
\* data of one character
DocFull ==
    DocJson(RootObj(TextObj(JStr("s"), 1),
                    JArr(<<JArr(<<TextObj(JStr("s"), 1)>>)>>)))

\* the output texts the recognizers are taken to produce
Outputs == {DocEmpty, DocInvalid, DocFull}

\* parse_char_info: the array infos after the characters of input were
\* appended to it
parse_char_info(infos, input, section) ==
    LET Point(p) == JObj([k \in {"x", "y"} |->
                            IF k = "x" THEN Index(p, 1) ELSE Index(p, 2)])
        Location(i) ==
            LET box == Index(Get(input, "char_box"), i)
            IN  JArr(<<Point(Index(Get(input, "char_pos"), i))>>
                     \o [b \in 1..Size(box) |-> Point(Index(box, b))])
        Tops(i) ==
            LET arr == Index(Get(input, "char_arr"), i)
            IN  [n \in 1..Size(arr) |->
                   JObj([k \in {"char_ocr_result", "char_confidence"} |->
                           IF k = "char_ocr_result"
                             THEN Index(Index(arr, n), 1)
                             ELSE Index(Index(arr, n), 2)])]
        Entry(i) ==
            JObj([k \in {"char_location"}
                        \cup (IF Tops(i) = <<>> THEN {} ELSE {section}) |->
                    IF k = "char_location" THEN Location(i) ELSE JArr(Tops(i))])
        n == Size(Get(input, "char_pos"))
    IN  IF n = 0 THEN infos
        ELSE JArr(Elems(infos) \o [i \in 1..n |-> Entry(i)])

\* a merger that writes character data whatever the flag
WithDetailsAlways(details) == TRUE

\* whether the writer of character data is run (lines 131, 154)
WithDetails(details) == details

\* parse_title_info: [threw, val], val being the member `result` afterwards
parse_title_info(result, input, details) ==
    LET text == Get(input, "text")
        done == [threw |-> FALSE, val |-> result]
    IN  IF Size(input) = 0 THEN done
        ELSE IF ~Has(input, "text") THEN done
        ELSE IF text.t = "null" THEN done
        ELSE IF AsStringThrows(text) THEN [threw |-> TRUE, val |-> result]
        ELSE IF AsStringEmpty(text) THEN done
        ELSE LET r1 == Put(result, "title_ocr_result", text)
             IN  IF ~WithDetails(details) THEN [threw |-> FALSE, val |-> r1]
                 ELSE [threw |-> FALSE,
                       val |-> Put(r1, "title_char_info",
                                   parse_char_info(Get(r1, "title_char_info"),
                                                   input, "char_ocr_topn"))]

\* a filter that lets lines with an empty text through
SkipLineNull(text) == text.t = "null"

\* whether a line is left out of the output (lines 147-151)
SkipLine(text) == text.t = "null" \/ AsStringEmpty(text)

\* the inner loop of parse_eassy_info over the lines of a paragraph, from
\* line i on: [threw, lines, flag]
RECURSIVE eassy_lines(_, _, _, _, _)
eassy_lines(para, i, lines, flag, details) ==
    IF i > Size(para) THEN [threw |-> FALSE, lines |-> lines, flag |-> flag]
    ELSE LET line == Index(para, i)
             text == Get(line, "text")
         IN  IF text.t # "null" /\ AsStringThrows(text)
               THEN [threw |-> TRUE, lines |-> lines, flag |-> flag]
             ELSE IF SkipLine(text)
               THEN eassy_lines(para, i + 1, lines, flag, details)
             ELSE LET i1 == Put(JNull, "line_ocr_result", text)
                      info == IF WithDetails(details)
                                THEN Put(i1, "line_char_info",
                                         parse_char_info(JNull, line,
                                                         "line_char_topn"))
                                ELSE i1
                  IN  eassy_lines(para, i + 1, AppendTo(lines, info), TRUE,
                                  details)

\* whether a paragraph is appended to para_ocr_result (line 159)
KeepParagraph(flag) == flag

\* the outer loop of parse_eassy_info, from paragraph i on: [threw, val]
RECURSIVE eassy_paras(_, _, _, _)
eassy_paras(result, input, i, details) ==
    IF i > Size(input) THEN [threw |-> FALSE, val |-> result]
    ELSE LET ls == eassy_lines(Index(input, i), 1, JNull, FALSE, details)
         IN  IF ls.threw THEN [threw |-> TRUE, val |-> result]
             ELSE eassy_paras(
                    IF KeepParagraph(ls.flag)
                      THEN Put(result, "para_ocr_result",
                               AppendTo(Get(result, "para_ocr_result"), ls.lines))
                      ELSE result,
                    input, i + 1, details)

\* parse_eassy_info: [threw, val], val being the member `result` afterwards;
\* input is taken to be an array or null
parse_eassy_info(result, input, details) ==
    IF Size(input) = 0 THEN [threw |-> FALSE, val |-> result]
    ELSE eassy_paras(result, input, 1, details)

\* a merger that always writes the precision title key
TitleKeySec(prcision) == "title_info_sec"

\* a merger that always writes the precision essay key
EssayKeySec(prcision) == "essay_info_sec"

\* the keys parse_result writes (lines 172-182)
TitleKey(prcision) == IF prcision THEN "title_info_sec" ELSE "title_info"
EssayKey(prcision) == IF prcision THEN "essay_info_sec" ELSE "essay_info"

\* a reader that accepts every text
ReaderParsesAll(str) == TRUE

\* line 175: reader.parse(str, root), which accepts a JSON document (and
\* neither an empty text nor one that is not JSON)
ReaderParses(str) == str.kind = "json"

\* a merge that hands an empty text to the reader
IsEmptyNever(str) == FALSE

\* line 165: str.size() == 0
IsEmpty(str) == str.kind = "empty"

\* parse_result: <<return value, result tree afterwards>>. result[title]
\* and result[essay] make the member as soon as the input has the
\* corresponding member; an exception inside the try block gives false and
\* leaves what was written so far.
parse_result(str, result, details, prcision) ==
    LET title == TitleKey(prcision)
        essay == EssayKey(prcision)
        root == str.root
    IN  IF IsEmpty(str) THEN <<TRUE, result>>
        ELSE IF ~ReaderParses(str) THEN <<FALSE, result>>
        ELSE IF root.t \notin {"obj", "null"} THEN <<FALSE, result>>
        ELSE
          LET t == IF Has(root, "title")
                     THEN parse_title_info(Get(Touch(result, title), title),
                                           Get(root, "title"), details)
                     ELSE [threw |-> FALSE, val |-> JNull]
              r1 == IF Has(root, "title") THEN Put(result, title, t.val)
                                          ELSE result
              e == IF Has(root, "texts")
                     THEN parse_eassy_info(Get(Touch(r1, essay), essay),
                                           Get(root, "texts"), details)
                     ELSE [threw |-> FALSE, val |-> JNull]
              r2 == IF Has(root, "texts") THEN Put(r1, essay, e.val) ELSE r1
          IN  IF t.threw THEN <<FALSE, r1>>
              ELSE IF e.threw THEN <<FALSE, r2>>
              ELSE <<TRUE, r2>>

BaselineKeys == {"title_info", "essay_info"}
PrecisionKeys == {"title_info_sec", "essay_info_sec"}
HasKey(tree, keys) == \E k \in keys : Has(tree, k)

\* ------------------------------------------------------------------- state
VARIABLES
    pc,          \* parse_task: position of each request thread
    details,     \* parse_task argument
    prcision,    \* parse_task argument
    frame,       \* parse_task locals: img_list, text_poly, ret, old_result, new_result
    result,      \* the caller's result tree
    fu,          \* the future of the precision task
    retval,      \* what parse_task returned, once pc is "returned"
    mutex,       \* owner of each resource mutex of Composion
    inCall,      \* threads inside detection() of each resource
    log,         \* per request: the stage events that have happened
    size,        \* ThreadPool: number of workers
    tasks,       \* ThreadPool::tasks
    m_lock,      \* owner of ThreadPool::m_lock
    waiting,     \* workers blocked inside cv_task.wait
    stoped,      \* ThreadPool::stoped
    wpc,         \* position of each worker
    wtask,       \* the task a worker popped
    dtor,        \* position of ~ThreadPool
    enq,         \* tasks in the order they were enqueued
    deq,         \* tasks in the order they were popped
    env,         \* the statuses and output texts the resources may yield
    http,        \* HandleRequest of each request: position, error, response,
                 \* and the telemetry records handed to the publisher
    pending_acks_,  \* BufferedProducer: the counter of expected acks
    messages_,      \* BufferedProducer: number of buffered messages
    outq,           \* messages inside producer_ whose delivery report has
                    \* not been dispatched yet
    made,           \* messages the application has created so far
    thr,            \* each thread using the BufferedProducer: its call,
                    \* position and locals
    bp,             \* a configured BufferedProducer used by one thread:
                    \* its settings, queues and counters
    curl,           \* a call of URLRequest::request: its locals
    vip             \* a call of VerifyImageParam: the body and the flags

kafkaVars == <<pending_acks_, messages_, outq, made, thr>>
clientVars == <<bp, curl, vip>>
args == <<details, prcision, env, http, kafkaVars, clientVars>>
coordVars == <<pc, args, frame, result, fu, retval, mutex, log>>
poolVars == <<size, tasks, m_lock, waiting, stoped, wpc, wtask, dtor, enq, deq>>
vars == <<coordVars, inCall, poolVars>>

Workers == 1..size

\* ThreadPool::ThreadPool: the number of workers for a requested size
NormSize(s) ==
    LET s1 == IF s = 0 THEN MAX_THREAD_NUM ELSE s
    IN  IF s1 >= MAX_THREAD_NUM THEN MAX_THREAD_NUM ELSE s1

NoTask == 0
FuInvalid == <<"invalid", 0>>
FuPending == <<"pending", 0>>
FuReady(s) == <<"ready", s>>

\* the locals of parse_task as declared at lines 199-209 (sizes of the
\* vectors, the pixel depth of the crops, the strings empty); ret is
\* uninitialized and is written before it is read
Locals ==
    [areas |-> 0, img_list |-> 0, text_poly |-> 0, depth |-> "raw", ret |-> 0,
     old_result |-> DocEmpty, new_result |-> DocEmpty]

\* HandleRequest while it is inside handler (url_request.hpp line 150):
\* error is E_OK, nothing is written to the response, nothing is sent
NoResponse == [code |-> "none", data |-> JNull]
InHandler ==
    [at |-> "handler", error |-> "E_OK", response |-> NoResponse, flow |-> <<>>]

\* a thread that is in no call of the BufferedProducer
IdleThread ==
    [at |-> "idle", op |-> "none", flush_queue |-> 0, expired |-> FALSE,
     ret |-> FALSE, cbret |-> "idle"]

\* no configured producer, no URL request and no validation under study
NoCall == [at |-> "none"]
InitClient == bp = NoCall /\ curl = NoCall /\ vip = NoCall

\* BufferedProducer::BufferedProducer: empty queues, pending_acks_{0}
InitProducer ==
    /\ pending_acks_ = 0
    /\ messages_ = 0
    /\ outq = 0
    /\ made = 0
    /\ thr = [t \in KThreads |-> IdleThread]

InitCoord ==
    /\ InitProducer
    /\ http = [r \in Requests |-> InHandler]
    /\ pc = [r \in Requests |-> "yolo_lock"]
    /\ details \in [Requests -> BOOLEAN]
    /\ prcision \in [Requests -> BOOLEAN]
    /\ frame = [r \in Requests |-> Locals]
    /\ result = [r \in Requests |-> JNull]
    /\ fu = [r \in Requests |-> FuInvalid]
    /\ retval = [r \in Requests |-> FALSE]
    /\ mutex = [m \in Mutexes |-> NoThread]
    /\ inCall = [res \in Resources |-> {}]
    /\ log = [r \in Requests |-> {}]

InitPool(n) ==
    /\ size = NormSize(n)
    /\ tasks = <<>>
    /\ m_lock = NoThread
    /\ waiting = {}
    /\ stoped = FALSE
    /\ wpc = [w \in 1..NormSize(n) |-> "top"]
    /\ wtask = [w \in 1..NormSize(n) |-> NoTask]
    /\ dtor = "alive"
    /\ enq = <<>>
    /\ deq = <<>>

\* Composion::_init: the four resources and a pool of PoolArg workers
Init ==
    /\ InitCoord
    /\ InitClient
    /\ InitPool(PoolArg)
    /\ env = [statuses |-> Statuses, outputs |-> Outputs]

\* ------------------------------------------------------ Composion::parse_task
Goto(r, l) == pc' = [pc EXCEPT ![r] = l]
Emit(r, es) == log' = [log EXCEPT ![r] = @ \cup es]

\* the events of the log: a stage's call begins, ends, and ends with status
\* 0 ("ok") or not ("fail")
Begin(stage) == <<stage, "begin">>
End(stage) == <<stage, "end">>
Verdict(stage, st) == <<stage, IF st = 0 THEN "ok" ELSE "fail">>
Committed == <<"pool", "commit">>
Joined == <<"pool", "join">>
Normalized == <<"crops", "normalize">>
EmptyDetection == <<"det", "empty">>
EmptyRegions == <<"yolo", "empty">>
Merging == <<"merge", "begin">>

\* parse_task returns v: its locals go out of scope
Return(r, v) ==
    /\ pc' = [pc EXCEPT ![r] = "returned"]
    /\ retval' = [retval EXCEPT ![r] = v]
    /\ frame' = [frame EXCEPT ![r] = Locals]

\* a guard that does not wait for the mutex to be free
LockGuardNoWait(m, t) == mutex' = [mutex EXCEPT ![m] = t]

\* a guard that waits until every mutex of the service is free
LockGuardGlobal(m, t) ==
    /\ \A x \in Mutexes : mutex[x] = NoThread
    /\ mutex' = [mutex EXCEPT ![m] = t]

\* std::lock_guard<std::mutex> lock(m): blocks until m is free
LockGuard(m, t) ==
    /\ mutex[m] = NoThread
    /\ mutex' = [mutex EXCEPT ![m] = t]

\* a guard whose scope never ends
UnlockNever(m) == UNCHANGED mutex

\* the end of a lock_guard's scope
Unlock(m) == mutex' = [mutex EXCEPT ![m] = NoThread]

Enter(res, t) == inCall' = [inCall EXCEPT ![res] = @ \cup {t}]
Leave(res, t) == inCall' = [inCall EXCEPT ![res] = @ \ {t}]

\* a test that takes only negative statuses for failures of a stage
StageFailsNegative(st) == st < 0

\* lines 216, 224: the test of a detection stage's status
StageFails(st) == st # 0

\* line 215
YoloLock(r) ==
    /\ pc[r] = "yolo_lock"
    /\ LockGuard("m_det_yolov5_mutex", ReqThread(r))
    /\ Goto(r, "yolo_call")
    /\ UNCHANGED <<args, frame, result, fu, retval, log, inCall, poolVars>>

\* line 216: m_yolov5->detection is entered
YoloCall(r) ==
    /\ pc[r] = "yolo_call"
    /\ Enter("m_yolov5", ReqThread(r))
    /\ Emit(r, {Begin("yolo")})
    /\ Goto(r, "yolo_in")
    /\ UNCHANGED <<args, frame, result, fu, retval, mutex, poolVars>>

\* lines 216-220: the call returns st and has filled areas; the guard's
\* scope ends either way
YoloReturn(r) ==
    /\ pc[r] = "yolo_in"
    /\ \E st \in env.statuses, na \in 0..MaxCrops :
         /\ IF StageFails(st)
              THEN Return(r, FALSE)
              ELSE /\ Goto(r, "det_lock")
                   /\ frame' = [frame EXCEPT ![r].areas = na]
                   /\ UNCHANGED retval
         /\ Emit(r, {End("yolo"), Verdict("yolo", st)}
                       \cup (IF st = 0 /\ na = 0 THEN {EmptyRegions} ELSE {}))
    /\ Leave("m_yolov5", ReqThread(r))
    /\ Unlock("m_det_yolov5_mutex")
    /\ UNCHANGED <<args, result, fu, poolVars>>

\* line 223
DetLock(r) ==
    /\ pc[r] = "det_lock"
    /\ LockGuard("m_det_new_mutex", ReqThread(r))
    /\ Goto(r, "det_call")
    /\ UNCHANGED <<args, frame, result, fu, retval, log, inCall, poolVars>>

\* line 224: m_det->detection is entered
DetCall(r) ==
    /\ pc[r] = "det_call"
    /\ Enter("m_det", ReqThread(r))
    /\ Emit(r, {Begin("det")})
    /\ Goto(r, "det_in")
    /\ UNCHANGED <<args, frame, result, fu, retval, mutex, poolVars>>

\* DetChnComp::detection on na regions: the <<status, crops, text
\* polygons>> it may give. Without a region there is nothing to crop: the
\* call succeeds with an empty bundle.
DetChnCompDetection(na) ==
    IF na = 0 THEN {<<0, 0, 0>>}
              ELSE env.statuses \X (0..MaxCrops) \X (0..MaxCrops)

\* lines 224-228: the call returns st and has filled img_list and text_poly
DetReturn(r) ==
    /\ pc[r] = "det_in"
    /\ \E out \in DetChnCompDetection(frame[r].areas) :
       LET st == out[1]
           ni == out[2]
           nt == out[3]
       IN
         /\ IF StageFails(st)
              THEN Return(r, FALSE)
              ELSE /\ Goto(r, "bundle")
                   /\ frame' = [frame EXCEPT ![r].img_list = ni, ![r].text_poly = nt]
                   /\ UNCHANGED retval
         /\ Emit(r, {End("det"), Verdict("det", st)}
                       \cup (IF st = 0 /\ (ni = 0 \/ nt = 0)
                               THEN {EmptyDetection} ELSE {}))
    /\ Leave("m_det", ReqThread(r))
    /\ Unlock("m_det_new_mutex")
    /\ UNCHANGED <<args, result, fu, poolVars>>

\* a test that never finds the bundle empty
EmptyBundleNever(f) == FALSE

\* a test that wants both vectors empty
EmptyBundleBoth(f) == f.img_list = 0 /\ f.text_poly = 0

\* line 234: the test of the empty bundle
EmptyBundle(f) == f.img_list = 0 \/ f.text_poly = 0

\* a loop that leaves the crops as they are
ConvertToNothing(f) == f

\* lines 230-232: img_list[j].convertTo(img_list[j], CV_8U) for every crop
ConvertTo(f) == [f EXCEPT !.depth = "8U"]

\* a parse_task that never submits the precision task
AfterBundleNoCommit(r) == "old_lock"

\* lines 238-244: where parse_task goes with a non-empty bundle
AfterBundle(r) == IF prcision[r] THEN "commit" ELSE "old_lock"

\* lines 230-242: convertTo of the crops, the empty-bundle return, and the
\* choice of the precision branch
Bundle(r) ==
    /\ pc[r] = "bundle"
    /\ Emit(r, {Normalized})
    /\ IF EmptyBundle(frame[r])
         THEN Return(r, TRUE)
         ELSE /\ Goto(r, AfterBundle(r))
              /\ frame' = [frame EXCEPT ![r] = ConvertTo(@)]
              /\ UNCHANGED retval
    /\ UNCHANGED <<args, result, fu, mutex, inCall, poolVars>>

\* ------------------------------------------------------- ThreadPool::commit
\* a commit that never tests the stop flag
CommitRejectsNever == FALSE

\* line 83: the test that rejects a commit
CommitRejects == stoped

\* lines 83-84: commit on a stopped pool throws, and the exception leaves
\* parse_task
CommitCheck(r) ==
    /\ pc[r] = "commit"
    /\ IF CommitRejects
         THEN Goto(r, "threw") /\ frame' = [frame EXCEPT ![r] = Locals]
         ELSE Goto(r, "commit_push") /\ UNCHANGED frame
    /\ UNCHANGED <<args, result, fu, retval, mutex, log, inCall, poolVars>>

\* tasks.emplace of the task of request r
Enqueue(r) == tasks' = Append(tasks, r)

\* lines 86-102: the packaged task and its future are made and the task is
\* pushed under m_lock
CommitPush(r) ==
    /\ pc[r] = "commit_push"
    /\ m_lock = NoThread
    /\ Enqueue(r)
    /\ enq' = Append(enq, r)
    /\ fu' = [fu EXCEPT ![r] = FuPending]
    /\ Emit(r, {Committed})
    /\ Goto(r, "commit_notify")
    /\ UNCHANGED <<args, frame, result, retval, mutex, inCall>>
    /\ UNCHANGED <<size, m_lock, waiting, stoped, wpc, wtask, dtor, deq>>

\* a commit that wakes nobody
NotifyTargetsNone == {}

\* the workers cv_task.notify_one may wake: those blocked in wait
NotifyTargets == waiting

\* a commit that returns only once the task has run
AfterCommitJoin(r) == "join"

\* where parse_task goes once commit has returned the future: on to the
\* baseline call of lines 244-248
AfterCommit(r) == "old_lock"

\* lines 104-106: cv_task.notify_one wakes one blocked worker, if any
CommitNotify(r) ==
    /\ pc[r] = "commit_notify"
    /\ IF NotifyTargets = {}
         THEN UNCHANGED <<waiting, wpc>>
         ELSE \E w \in NotifyTargets :
                /\ waiting' = waiting \ {w}
                /\ wpc' = [wpc EXCEPT ![w] = "relock"]
    /\ Goto(r, AfterCommit(r))
    /\ UNCHANGED <<args, frame, result, fu, retval, mutex, log, inCall>>
    /\ UNCHANGED <<size, tasks, m_lock, stoped, wtask, dtor, enq, deq>>

\* line 246
OldLock(r) ==
    /\ pc[r] = "old_lock"
    /\ LockGuard("m_rec_old_mutex", ReqThread(r))
    /\ Goto(r, "old_call")
    /\ UNCHANGED <<args, frame, result, fu, retval, log, inCall, poolVars>>

\* line 247: m_rec_old->detection is entered
OldCall(r) ==
    /\ pc[r] = "old_call"
    /\ Enter("m_rec_old", ReqThread(r))
    /\ Emit(r, {Begin("old")})
    /\ Goto(r, "old_in")
    /\ UNCHANGED <<args, frame, result, fu, retval, mutex, poolVars>>

\* the output text a recognizer leaves with status st
OutputsOf(st) == IF st = 0 THEN env.outputs ELSE {DocEmpty}

\* a parse_task that goes on to the merge without the join
AfterOldNoJoin(r) == "merge"

\* where parse_task goes once the baseline call has returned: the join of
\* lines 252-257 when the precision task was submitted
AfterOld(r) == IF prcision[r] THEN "join" ELSE "merge"

\* lines 247-248: the call returns st into ret and has written old_result
OldReturn(r) ==
    /\ pc[r] = "old_in"
    /\ \E st \in env.statuses : \E out \in OutputsOf(st) :
         /\ frame' = [frame EXCEPT ![r].ret = st, ![r].old_result = out]
         /\ Emit(r, {End("old"), Verdict("old", st)})
    /\ Leave("m_rec_old", ReqThread(r))
    /\ Unlock("m_rec_old_mutex")
    /\ Goto(r, AfterOld(r))
    /\ UNCHANGED <<args, result, fu, retval, poolVars>>

\* a get() that returns as soon as the future has a shared state
FutureReadyEarly(f) == f[1] # "invalid"

\* std::future::get returns once the shared state holds a value
FutureReady(f) == f[1] = "ready"

\* a test that takes only negative statuses for failures
JoinFailsNegative(st) == st < 0

\* line 253: the test of the precision status
JoinFails(st) == st # 0

\* lines 252-257: fu.get() blocks until the task has set its value
Join(r) ==
    /\ pc[r] = "join"
    /\ FutureReady(fu[r])
    /\ Emit(r, {Joined})
    /\ IF JoinFails(fu[r][2]) THEN Return(r, FALSE)
                       ELSE Goto(r, "merge") /\ UNCHANGED <<retval, frame>>
    /\ fu' = [fu EXCEPT ![r] = FuInvalid]
    /\ UNCHANGED <<args, result, mutex, inCall, poolVars>>

\* a test that takes only negative baseline statuses for failures
BaselineFailsNegative(st) == st < 0

\* line 259: the test of the baseline status
BaselineFails(st) == st # 0

\* lines 259-269: the baseline status, then parse_result of old_result
Merge(r) ==
    /\ pc[r] = "merge"
    /\ Emit(r, {Merging})
    /\ LET old == parse_result(frame[r].old_result, result[r], details[r], FALSE)
       IN  IF BaselineFails(frame[r].ret)
             THEN Return(r, FALSE) /\ UNCHANGED result
             ELSE /\ result' = [result EXCEPT ![r] = old[2]]
                  /\ IF ~old[1] THEN Return(r, FALSE)
                     ELSE IF prcision[r]
                       THEN Goto(r, "merge_sec") /\ UNCHANGED <<retval, frame>>
                       ELSE Return(r, TRUE)
    /\ UNCHANGED <<args, fu, mutex, inCall, poolVars>>

\* lines 269-278: parse_result of new_result into the same tree
MergeSec(r) ==
    /\ pc[r] = "merge_sec"
    /\ LET new == parse_result(frame[r].new_result, result[r], details[r], TRUE)
       IN  /\ result' = [result EXCEPT ![r] = new[2]]
           /\ Return(r, new[1])
    /\ UNCHANGED <<args, fu, mutex, log, inCall, poolVars>>

\* --------------------------------------------------- ThreadPool worker loop
WGoto(w, l) == wpc' = [wpc EXCEPT ![w] = l]

\* line 47: while(!this->stoped)
WorkerTop(w) ==
    /\ wpc[w] = "top"
    /\ WGoto(w, IF stoped THEN "exited" ELSE "lock")
    /\ UNCHANGED <<coordVars, inCall, size, tasks, m_lock, waiting, stoped,
                   wtask, dtor, enq, deq>>

\* line 51, and the re-lock of a woken waiter inside cv_task.wait
WorkerLock(w) ==
    /\ wpc[w] \in {"lock", "relock"}
    /\ m_lock = NoThread
    /\ m_lock' = WrkThread(w)
    /\ WGoto(w, "locked")
    /\ UNCHANGED <<coordVars, inCall, size, tasks, waiting, stoped, wtask,
                   dtor, enq, deq>>

\* a worker that takes the newest task
FrontNewest(q) == q[Len(q)]

\* the task a worker takes: tasks.front()
Front(q) == Head(q)

\* a worker that keeps m_lock while it runs the task
AfterPopHeld(w) == WrkThread(w)

\* the owner of m_lock once worker w has popped its task: the unique_lock's
\* scope ends at line 61, before task() runs
AfterPop(w) == NoThread

\* lines 52-61 under m_lock: the wait predicate; when it holds, either the
\* return of a stopped worker on an empty queue or the pop of the front task
WorkerLocked(w) ==
    /\ wpc[w] = "locked"
    /\ IF stoped \/ tasks # <<>>
         THEN IF stoped /\ tasks = <<>>
                THEN /\ WGoto(w, "exited")
                     /\ m_lock' = NoThread
                     /\ UNCHANGED <<tasks, wtask, deq>>
                ELSE /\ wtask' = [wtask EXCEPT ![w] = Front(tasks)]
                     /\ tasks' = Tail(tasks)
                     /\ deq' = Append(deq, Front(tasks))
                     /\ m_lock' = AfterPop(w)
                     /\ WGoto(w, "run")
         ELSE /\ WGoto(w, "towait")
              /\ UNCHANGED <<tasks, wtask, deq, m_lock>>
    /\ UNCHANGED <<coordVars, inCall, size, waiting, stoped, dtor, enq>>

\* line 52: the predicate was false; wait releases m_lock and blocks
WorkerWait(w) ==
    /\ wpc[w] = "towait"
    /\ m_lock' = NoThread
    /\ waiting' = waiting \cup {w}
    /\ WGoto(w, "blocked")
    /\ UNCHANGED <<coordVars, inCall, size, tasks, stoped, wtask, dtor, enq, deq>>

\* line 62 with part_005 lines 239-241: task() runs the lambda, which enters
\* m_rec_new->detection; the lambda takes no mutex
TaskBegin(w) ==
    /\ wpc[w] = "run"
    /\ Enter("m_rec_new", WrkThread(w))
    /\ Emit(wtask[w], {Begin("new")})
    /\ WGoto(w, "intask")
    /\ UNCHANGED <<pc, args, frame, result, fu, retval, mutex>>
    /\ UNCHANGED <<size, tasks, m_lock, waiting, stoped, wtask, dtor, enq, deq>>

\* a pool whose tasks set the value of the next request's future
PromiseOfOther(t) == (t % NReq) + 1

\* the future whose shared state the packaged task of request t sets: the
\* one commit got from that very task (part_010 lines 86-100)
PromiseOf(t) == t

\* the call returns st, has written new_result, and the packaged task makes
\* the future ready with st
TaskEnd(w) ==
    /\ wpc[w] = "intask"
    /\ \E st \in env.statuses : \E out \in OutputsOf(st) :
         /\ frame' = [frame EXCEPT ![wtask[w]].new_result = out]
         /\ fu' = [fu EXCEPT ![PromiseOf(wtask[w])] = FuReady(st)]
         /\ Emit(wtask[w], {End("new"), Verdict("new", st)})
    /\ Leave("m_rec_new", WrkThread(w))
    /\ wtask' = [wtask EXCEPT ![w] = NoTask]
    /\ WGoto(w, "top")
    /\ UNCHANGED <<pc, args, result, retval, mutex>>
    /\ UNCHANGED <<size, tasks, m_lock, waiting, stoped, dtor, enq, deq>>

\* ------------------------------------------------- ThreadPool::~ThreadPool
\* line 70: this->stoped = true, written without m_lock
DtorStop ==
    /\ dtor = "alive"
    /\ stoped' = TRUE
    /\ dtor' = "notify"
    /\ UNCHANGED <<coordVars, inCall, size, tasks, m_lock, waiting, wpc, wtask,
                   enq, deq>>

\* lines 71-76: cv_task.notify_all wakes every blocked worker; the threads
\* are detached, not joined
DtorNotify ==
    /\ dtor = "notify"
    /\ waiting' = {}
    /\ wpc' = [w \in Workers |-> IF w \in waiting THEN "relock" ELSE wpc[w]]
    /\ dtor' = "done"
    /\ UNCHANGED <<coordVars, inCall, size, tasks, m_lock, stoped, wtask, enq, deq>>

\* ---------------------------------------------------------- specifications
\* parse_task up to the empty-bundle check (lines 212-236)
Detect(r) ==
    \/ YoloLock(r) \/ YoloCall(r) \/ YoloReturn(r)
    \/ DetLock(r) \/ DetCall(r) \/ DetReturn(r)
    \/ Bundle(r)

\* parse_task from the commit on (lines 238-279)
Recognize(r) ==
    \/ CommitCheck(r) \/ CommitPush(r) \/ CommitNotify(r)
    \/ OldLock(r) \/ OldCall(r) \/ OldReturn(r)
    \/ Join(r) \/ Merge(r) \/ MergeSec(r)

\* one step of a pool worker
Worker(w) ==
    \/ WorkerTop(w) \/ WorkerLock(w) \/ WorkerLocked(w) \/ WorkerWait(w)
    \/ TaskBegin(w) \/ TaskEnd(w)

Next ==
    \/ \E r \in Requests : Detect(r) \/ Recognize(r)
    \/ \E w \in Workers : Worker(w)

\* the service as Composion::_init builds it, while it serves requests
Spec == Init /\ [][Next]_vars

\* The pool through its whole life, with any worker count and its
\* destructor running at any moment. Its clients are the requests that
\* reach the commit of line 239: each starts where parse_task has passed
\* the empty-bundle check with prcision set.
AtCommit ==
    /\ InitProducer
    /\ InitClient
    /\ http = [r \in Requests |-> InHandler]
    /\ pc = [r \in Requests |-> "commit"]
    /\ details = [r \in Requests |-> FALSE]
    /\ prcision = [r \in Requests |-> TRUE]
    /\ frame = [r \in Requests |->
                  [Locals EXCEPT !.areas = MaxCrops, !.img_list = MaxCrops,
                                 !.text_poly = MaxCrops, !.depth = "8U"]]
    /\ result = [r \in Requests |-> JNull]
    /\ fu = [r \in Requests |-> FuInvalid]
    /\ retval = [r \in Requests |-> FALSE]
    /\ mutex = [m \in Mutexes |-> NoThread]
    /\ inCall = [res \in Resources |-> {}]
    /\ log = [r \in Requests |->
                {Begin("yolo"), End("yolo"), Verdict("yolo", 0),
                 Begin("det"), End("det"), Verdict("det", 0), Normalized}]

PoolInit ==
    /\ AtCommit
    /\ \E n \in 1..MaxWorkers : InitPool(n)
    /\ env = [statuses |-> {0, -1}, outputs |-> {DocFull}]

PoolNext ==
    \/ \E r \in Requests : Recognize(r)
    \/ \E w \in Workers : Worker(w)
    \/ DtorStop
    \/ DtorNotify

PoolSpec == PoolInit /\ [][PoolNext]_vars

\* The merge of lines 259-278 on its own, over every shape of recognizer
\* output up to these sizes.
\* characters of a title or line
MaxChars == 1
\* lines of a paragraph
MaxLines == 2
\* paragraphs of a text
MaxParas == 2

SeqsUpTo(S, n) == UNION {[1..k -> S] : k \in 0..n}

\* the text member of a title or line: null, empty, a string, or an object
\* (for which asString throws)
TextVals == {JNull, JStr(""), JStr("s"), JObj(NoMembers)}
Lines ==
    {TextObj(JStr("s"), n) : n \in 0..MaxChars}
      \cup {TextObj(t, MaxChars) : t \in TextVals \ {JStr("s")}}
Paragraphs == {JArr(p) : p \in SeqsUpTo(Lines, MaxLines)}
Texts == {JNull} \cup {JArr(t) : t \in SeqsUpTo(Paragraphs, MaxParas)}
Titles == {JNull, NoTextObj(MaxChars)} \cup Lines
\* the roots: an object with both, one or none of the two members, and an
\* array (for which isMember throws)
Roots ==
    {RootObj(ti, te) : ti \in Titles, te \in Texts}
      \cup {JObj([k \in {"title"} |-> ti]) : ti \in Titles}
      \cup {JObj([k \in {"texts"} |-> te]) : te \in Texts}
      \cup {JObj(NoMembers), JArr(<<JNum(1)>>)}
Docs == {DocEmpty, DocInvalid} \cup {DocJson(x) : x \in Roots}

\* Request 1 has reached line 259 with the statuses and output texts of its
\* recognizers in its locals; the other requests have returned on a failure
\* of the region detector, and the pool worker is idle. One of the two
\* texts ranges over Docs, the other over Outputs.
MergeInit ==
    \E d \in BOOLEAN, p \in BOOLEAN, st \in {0, -1} :
    \E io \in (Docs \X Outputs) \cup (Outputs \X Docs) :
        /\ st # 0 => io[1] = DocEmpty
        /\ ~p => io[2] = DocEmpty
        /\ InitProducer
        /\ InitClient
        /\ http = [r \in Requests |-> InHandler]
        /\ pc = [r \in Requests |-> IF r = 1 THEN "merge" ELSE "returned"]
        /\ details = [r \in Requests |-> r = 1 /\ d]
        /\ prcision = [r \in Requests |-> r = 1 /\ p]
        /\ frame = [r \in Requests |->
                      IF r = 1
                        THEN [areas |-> MaxCrops, img_list |-> MaxCrops,
                              text_poly |-> MaxCrops, depth |-> "8U",
                              ret |-> st, old_result |-> io[1],
                              new_result |-> io[2]]
                        ELSE Locals]
        /\ result = [r \in Requests |-> JNull]
        /\ fu = [r \in Requests |-> FuInvalid]
        /\ retval = [r \in Requests |-> FALSE]
        /\ mutex = [m \in Mutexes |-> NoThread]
        /\ inCall = [res \in Resources |-> {}]
        /\ log = [r \in Requests |->
                    IF r = 1
                      THEN {Begin("yolo"), End("yolo"), Verdict("yolo", 0),
                            Begin("det"), End("det"), Verdict("det", 0),
                            Normalized,
                            Begin("old"), End("old"), Verdict("old", st)}
                           \cup (IF p THEN {Committed, Begin("new"), End("new"),
                                            Verdict("new", 0), Joined}
                                      ELSE {})
                      ELSE {Begin("yolo"), End("yolo"), Verdict("yolo", -1)}]
        /\ size = NormSize(PoolArg)
        /\ tasks = <<>>
        /\ m_lock = NoThread
        /\ waiting = 1..NormSize(PoolArg)
        /\ stoped = FALSE
        /\ wpc = [w \in 1..NormSize(PoolArg) |-> "blocked"]
        /\ wtask = [w \in 1..NormSize(PoolArg) |-> NoTask]
        /\ dtor = "alive"
        /\ enq = IF p THEN <<1>> ELSE <<>>
        /\ deq = IF p THEN <<1>> ELSE <<>>
        /\ env = [statuses |-> {st}, outputs |-> {io[1], io[2]}]

MergeNext == \E r \in Requests : Merge(r) \/ MergeSec(r)

MergeSpec == MergeInit /\ [][MergeNext]_vars

\* ------------------------------------------- ImageInterface::HandleRequest
\* TALError codes: E_OK, the two of VerifyImageParam, the one of handler,
\* and the failures of ParseRequestBody, GetImageData and DecodeImage
ErrorCodes ==
    {"E_OK", "E_UNKNOWN_REQ", "E_IMAGE_BOTH_NULL", "E_INTERNAL_ERROR",
     "E_BODY", "E_IMAGE_DATA", "E_IMAGE_DECODE"}

\* the members of a request body that VerifyImageParam reads: an image
\* member is absent, not a string, the empty string or a string; a flag is
\* absent, true, false or not a bool
ImageVals == {"absent", "other", "", "data"}
FlagVals == {"absent", "true", "false", "other"}
Bodies ==
    [image_base64 : ImageVals, image_url : ImageVals,
     details : FlagVals, precision : FlagVals]

\* a validation that also rejects a precision member that is not a bool
PrecisionRejectedAlways(v) == v = "other"

\* lines 82-86: a precision member that is not a bool is ignored
PrecisionRejected(v) == FALSE

\* VerifyImageParam: [error, details, precision]
VerifyImageParam(body) ==
    LET fail(c) == [error |-> c, details |-> FALSE, precision |-> FALSE]
        image_base64_ == IF body.image_base64 = "absent" THEN ""
                                                         ELSE body.image_base64
        image_url_ == IF image_base64_ = "" /\ body.image_url # "absent"
                        THEN body.image_url ELSE ""
        m_details == body.details = "true"
        m_precision == body.precision = "true"
    IN  IF body.image_base64 = "other" THEN fail("E_UNKNOWN_REQ")
        ELSE IF image_url_ = "other" THEN fail("E_UNKNOWN_REQ")
        ELSE IF image_base64_ = "" /\ image_url_ = ""
          THEN fail("E_IMAGE_BOTH_NULL")
        ELSE IF body.details = "other"
          THEN fail("E_UNKNOWN_REQ")
        ELSE IF PrecisionRejected(body.precision)
          THEN [error |-> "E_UNKNOWN_REQ", details |-> m_details,
                precision |-> FALSE]
        ELSE [error |-> "E_OK", details |-> m_details,
              precision |-> m_precision]

\* HandleImage, given the body and what ParseRequestBody, GetImageData and
\* DecodeImage return: the first error, or E_OK with the flags
HandleImageResult(body, parsed, got, decoded) ==
    LET v == VerifyImageParam(body)
        fail(c) == [error |-> c, details |-> v.details, precision |-> v.precision]
    IN  IF parsed # "E_OK"
          THEN [error |-> parsed, details |-> FALSE, precision |-> FALSE]
        ELSE IF v.error # "E_OK" THEN v
        ELSE IF got # "E_OK" THEN fail(got)
        ELSE IF decoded # "E_OK" THEN fail(decoded)
        ELSE v

\* the event of the log: HandleImage returned this code
ImageResult(code) == <<"image", code>>

\* a HandleRequest that calls handler whatever HandleImage returned
HandlerRunsAlways(err) == TRUE

\* lines 147-150: handler is called only when HandleImage returned E_OK
HandlerRuns(err) == err = "E_OK"

\* what HandleImage can return, over every body and every outcome of the
\* three calls around VerifyImageParam
HandleImageResults ==
    {HandleImageResult(body, parsed, got, decoded) :
        body \in Bodies, parsed \in {"E_OK", "E_BODY"},
        got \in {"E_OK", "E_IMAGE_DATA"}, decoded \in {"E_OK", "E_IMAGE_DECODE"}}

\* lines 145-150: HandleImage, then either the break or the call of
\* handler, which calls parse_task with the flags of the request
HandleImage(r) ==
    /\ http[r].at = "start"
    /\ \E res \in HandleImageResults :
             /\ http' = [http EXCEPT ![r].error = res.error,
                                     ![r].at = IF HandlerRuns(res.error)
                                                 THEN "handler" ELSE "respond"]
             /\ IF HandlerRuns(res.error)
                  THEN /\ pc' = [pc EXCEPT ![r] = "yolo_lock"]
                       /\ details' = [details EXCEPT ![r] = res.details]
                       /\ prcision' = [prcision EXCEPT ![r] = res.precision]
                  ELSE UNCHANGED <<pc, details, prcision>>
             /\ Emit(r, {ImageResult(res.error)})
    /\ UNCHANGED <<env, kafkaVars, clientVars, frame, result, fu, retval, mutex, inCall,
                   poolVars>>

\* app.cpp lines 39-43: the error handler makes of parse_task's return value
HandlerError(ok) == IF ok THEN "E_OK" ELSE "E_INTERNAL_ERROR"

\* line 150 with app.cpp lines 36-44: parse_task has returned into handler
HandlerReturn(r) ==
    /\ http[r].at = "handler"
    /\ pc[r] = "returned"
    /\ http' = [http EXCEPT ![r].error = HandlerError(retval[r]),
                            ![r].at = "respond"]
    /\ UNCHANGED <<pc, details, prcision, env, kafkaVars, clientVars, frame,
                   result, fu, retval, mutex, log, inCall, poolVars>>

\* lines 156-169: root is built and written into response; data is the
\* result tree only when error is E_OK
Respond(r) ==
    /\ http[r].at = "respond"
    /\ http' = [http EXCEPT
                  ![r].response =
                      [code |-> http[r].error,
                       data |-> IF http[r].error = "E_OK" THEN result[r]
                                                          ELSE JNull],
                  ![r].at = "send"]
    /\ UNCHANGED <<pc, details, prcision, env, kafkaVars, clientVars, frame,
                   result, fu, retval, mutex, log, inCall, poolVars>>

\* a publisher call made only for requests that succeeded
RecordsOnSuccess(h) ==
    IF h.error = "E_OK" THEN <<[code |-> h.error, response |-> h.response]>>
                        ELSE <<>>

\* SendDataFlow: the records handed to KafkaClient::SendMsg, with
\* data_code and the response (lines 203-210)
Records(h) == <<[code |-> h.error, response |-> h.response]>>

\* lines 171-175: SendDataFlow, after which HandleRequest returns
SendDataFlow(r) ==
    /\ http[r].at = "send"
    /\ http' = [http EXCEPT ![r].flow = @ \o Records(http[r]),
                            ![r].at = "done"]
    /\ UNCHANGED <<pc, details, prcision, env, kafkaVars, clientVars, frame,
                   result, fu, retval, mutex, log, inCall, poolVars>>

\* one step of HandleRequest outside handler
Serve(r) ==
    \/ HandleImage(r) \/ HandlerReturn(r) \/ Respond(r) \/ SendDataFlow(r)

\* The service from the arrival of each request: parse_task has not been
\* called and the flags are not read yet.
ServeInit ==
    /\ InitProducer
    /\ InitClient
    /\ http = [r \in Requests |-> [InHandler EXCEPT !.at = "start"]]
    /\ pc = [r \in Requests |-> "idle"]
    /\ details = [r \in Requests |-> FALSE]
    /\ prcision = [r \in Requests |-> FALSE]
    /\ frame = [r \in Requests |-> Locals]
    /\ result = [r \in Requests |-> JNull]
    /\ fu = [r \in Requests |-> FuInvalid]
    /\ retval = [r \in Requests |-> FALSE]
    /\ mutex = [m \in Mutexes |-> NoThread]
    /\ inCall = [res \in Resources |-> {}]
    /\ log = [r \in Requests |-> {}]
    /\ InitPool(PoolArg)
    /\ env = [statuses |-> {0, -1}, outputs |-> {DocFull}]

ServeNext ==
    \/ \E r \in Requests : Serve(r) \/ Detect(r) \/ Recognize(r)
    \/ \E w \in Workers : Worker(w)

ServeSpec == ServeInit /\ [][ServeNext]_vars

\* The service under fair scheduling: every request thread and every pool
\* worker that can take a step eventually takes one, and every resource
\* call returns (its return is a step of the thread inside it). The
\* recognizers yield a status of each kind and one output text.
LiveInit ==
    /\ InitCoord
    /\ InitClient
    /\ details = [r \in Requests |-> FALSE]
    /\ InitPool(PoolArg)
    /\ env = [statuses |-> {0, -1}, outputs |-> {DocFull}]

\* (every step of a request changes pc, every step of a worker wpc)
Fairness ==
    /\ \A r \in Requests : WF_pc(Detect(r) \/ Recognize(r))
    /\ \A w \in 1..NormSize(PoolArg) : WF_wpc(Worker(w))

LiveSpec == LiveInit /\ [][Next]_vars /\ Fairness

\* The pool with its destructor under fair scheduling: every request and
\* every worker thread keeps running, and a destructor that has set the
\* flag goes on to its notify_all.
PoolFairness ==
    /\ \A r \in Requests : WF_pc(Recognize(r))
    /\ \A w \in 1..MaxWorkers : WF_wpc(w <= size /\ Worker(w))
    /\ WF_dtor(DtorNotify)

PoolLiveSpec == PoolInit /\ [][PoolNext]_vars /\ PoolFairness

\* ------------------------------------------------------------------ claims
Busy(w) == wpc[w] \in {"run", "intask"}
Did(r, e) == e \in log[r]

\* C1: at any instant each of the four inference resources has at most one
\* detection call in progress, whatever the mix of concurrent requests.
C1_OneCallPerResource ==
    \A res \in Resources : Cardinality(inCall[res]) <= 1

\* C1 witness: the baseline recognizer is in a call while another request
\* waits for its mutex, and the precision recognizer is in a call while
\* another precision task is queued.
C1_Witness ==
    /\ inCall["m_rec_old"] # {}
    /\ \E r \in Requests : pc[r] = "old_lock"
    /\ inCall["m_rec_new"] # {}
    /\ tasks # <<>>

\* C2 (the claim as stated): every thread inside a call of a resource holds
\* that resource's own mutex.
C2_CallsHoldOwnLock ==
    \A res \in Resources : \A t \in inCall[res] : mutex[MutexOf(res)] = t

\* C3: a request that submitted the precision task has not returned unless
\* the task has finished and the request has read its status through the
\* future, on the failing-baseline path too.
C3_NoReturnBeforeJoin ==
    \A r \in Requests :
        (pc[r] = "returned" /\ Did(r, Committed))
            => (Did(r, End("new")) /\ Did(r, Joined))

\* C3 witness: a request has returned after submitting, its baseline call
\* having failed.
C3_Witness ==
    \E r \in Requests :
        /\ pc[r] = "returned"
        /\ Did(r, Committed)
        /\ Did(r, <<"old", "fail">>)
        /\ Did(r, Joined)

\* C4: when the precision recognizer returned a non-zero status and the
\* baseline recognizer returned 0, the request has returned false and its
\* result holds no baseline section.
C4_PrecisionFailureIsFatal ==
    \A r \in Requests :
        (pc[r] = "returned" /\ prcision[r]
            /\ Did(r, <<"new", "fail">>) /\ Did(r, <<"old", "ok">>))
            => (retval[r] = FALSE /\ ~HasKey(result[r], BaselineKeys))

\* C4 witness: such a request has returned.
C4_Witness ==
    \E r \in Requests :
        /\ pc[r] = "returned"
        /\ prcision[r]
        /\ Did(r, <<"new", "fail">>)
        /\ Did(r, <<"old", "ok">>)

\* C5: once text detection has succeeded with no crop or no text polygon,
\* no task is submitted and no recognizer is invoked for the request, and
\* when it has returned it has returned true with the result untouched.
C5_EmptyBundleShortCircuit ==
    \A r \in Requests :
        Did(r, EmptyDetection) =>
            /\ ~Did(r, Committed)
            /\ ~Did(r, Begin("old"))
            /\ ~Did(r, Begin("new"))
            /\ pc[r] \in {"bundle", "returned"}
            /\ pc[r] = "returned" => (retval[r] = TRUE /\ result[r] = JNull)

\* C5 witness: a request with both flags set has returned on an empty
\* bundle.
C5_Witness ==
    \E r \in Requests :
        /\ pc[r] = "returned"
        /\ Did(r, EmptyDetection)
        /\ prcision[r]
        /\ details[r]

\* C6: within a request, text detection starts only after region detection
\* has returned, a recognizer call or a submission happens only after text
\* detection has returned, and the merge starts only after the baseline
\* call has returned and, with precision requested, the task was joined.
C6_StageOrder ==
    \A r \in Requests :
        /\ Did(r, Begin("det")) => Did(r, End("yolo"))
        /\ (Did(r, Committed) \/ Did(r, Begin("old")) \/ Did(r, Begin("new")))
              => Did(r, End("det"))
        /\ Did(r, Merging) =>
              /\ Did(r, End("old"))
              /\ prcision[r] => (Did(r, End("new")) /\ Did(r, Joined))

\* C6 witness: a precision request has started its merge.
C6_Witness ==
    \E r \in Requests :
        /\ prcision[r] /\ Did(r, Merging)
        /\ pc[r] = "returned" /\ retval[r] = TRUE

\* C7 (the claim as stated): no worker exits while the queue is non-empty.
C7_NoExitWithQueuedTasks ==
    [][\A w \in Workers :
          (wpc[w] # "exited" /\ wpc'[w] = "exited") => tasks = <<>>]_vars

\* C8: a commit that tests the stop flag after the destructor has set it
\* throws: it leaves the queue and the request's future as they were.
C8_CommitAfterStopRejected ==
    [][\A r \in Requests :
          (pc[r] = "commit" /\ stoped /\ pc'[r] # pc[r])
              => (pc'[r] = "threw" /\ tasks' = tasks /\ enq' = enq
                  /\ fu'[r] = FuInvalid)]_vars

\* C8 witness: a commit has been rejected.
C8_Witness ==
    \E r \in Requests : pc[r] = "threw" /\ ~Did(r, Committed) /\ stoped

\* C9: a worker that runs a task does not hold m_lock, so when every worker
\* is busy a commit that is about to push can take its step.
C9_CommitNeverWaitsForWorker ==
    /\ \A w \in Workers : Busy(w) => m_lock # WrkThread(w)
    /\ \A r \in Requests :
          (pc[r] = "commit_push" /\ \A w \in Workers : Busy(w))
              => ENABLED CommitPush(r)

\* C9 witness: every worker is inside the task of another request and a
\* request is about to push its own task, which it can.
C9_Witness ==
    \E r \in Requests :
        /\ \A w \in Workers : wpc[w] = "intask" /\ wtask[w] # r
        /\ pc[r] = "commit_push"
        /\ ENABLED CommitPush(r)

\* C10: tasks are popped in the order they were enqueued, and with the
\* single worker of the coordinator every task popped before the latest one
\* has completed, so at most one precision call runs at a time.
C10_FifoAndSequential ==
    /\ deq \o tasks = enq
    /\ \A i \in 1..(Len(deq) - 1) : Did(deq[i], End("new"))
    /\ Cardinality({w \in Workers : Busy(w)}) <= 1

\* C10 witness: two tasks were enqueued, the one of request 2 first, and
\* both have been run.
C10_Witness ==
    /\ Len(enq) >= 2
    /\ enq[1] = 2
    /\ deq = enq
    /\ \A i \in 1..Len(deq) : Did(deq[i], End("new"))

\* the number of times request r occurs in the sequence q
Count(q, r) == Cardinality({i \in DOMAIN q : q[i] = r})

\* C11: each submitted task produces exactly one outcome and the get() of
\* its handle delivers that task's outcome to the request that submitted
\* it: a request is submitted and taken at most once, a future is ready
\* only with the status its own precision call ended with, and a request
\* that has joined acts on the status of its own precision task, never on
\* another request's.
C11_JoinSeesOwnOutcome ==
    \A r \in Requests :
        /\ Count(enq, r) <= 1 /\ Count(deq, r) <= 1
        /\ fu[r] # FuInvalid => Did(r, Committed)
        /\ fu[r][1] = "ready"
             => Did(r, End("new")) /\ Did(r, Verdict("new", fu[r][2]))
        /\ ~(Did(r, Verdict("new", 0)) /\ Did(r, Verdict("new", -1)))
        /\ Did(r, Joined)
             => /\ Did(r, End("new"))
                /\ Did(r, Verdict("new", -1))
                     => pc[r] = "returned" /\ retval[r] = FALSE
                        /\ ~Did(r, Merging)
                /\ Did(r, Verdict("new", 0))
                     => pc[r] \in {"merge", "merge_sec", "returned"}

\* C11 witness: two requests have joined, one on the failure of its own
\* precision task and one on the success of its own.
C11_Witness ==
    \E r1, r2 \in Requests :
        /\ Did(r1, Joined) /\ Did(r1, Verdict("new", -1))
        /\ Did(r2, Joined) /\ Did(r2, Verdict("new", 0))
        /\ pc[r2] = "merge"

\* the mutex a request holds at each position of parse_task
HeldAt(l) ==
    CASE l \in {"yolo_call", "yolo_in"} -> {"m_det_yolov5_mutex"}
      [] l \in {"det_call", "det_in"}   -> {"m_det_new_mutex"}
      [] l \in {"old_call", "old_in"}   -> {"m_rec_old_mutex"}
      [] OTHER                          -> {}

\* C12: a resource lock acquired for a stage is released on every exit
\* path of the stage, the early return on a non-zero status included: a
\* request holds a resource lock only inside the stage that took it, and
\* none once parse_task has returned.
C12_LocksReleasedOnExit ==
    \A r \in Requests : \A m \in Mutexes :
        mutex[m] = ReqThread(r) => m \in HeldAt(pc[r])

\* C12 witness: a request has returned on the failure of the text
\* detector, and another request has taken the lock that stage held.
C12_Witness ==
    \E r1, r2 \in Requests :
        /\ pc[r1] = "returned" /\ Did(r1, Verdict("det", -1))
        /\ mutex["m_det_new_mutex"] = ReqThread(r2)

\* C13: Failed is absorbing: after the region detector returns non-zero
\* the request has returned false with the text detector and both
\* recognizers never invoked and no pool task submitted; after the text
\* detector returns non-zero it has returned false with no recognizer
\* invoked and no pool task submitted.
C13_FailedIsAbsorbing ==
    \A r \in Requests :
        LET NoRecognition ==
                /\ pc[r] = "returned" /\ retval[r] = FALSE
                /\ ~Did(r, Begin("old")) /\ ~Did(r, Begin("new"))
                /\ ~Did(r, Committed) /\ Count(enq, r) = 0
        IN  /\ Did(r, Verdict("yolo", -1)) => NoRecognition /\ ~Did(r, Begin("det"))
            /\ Did(r, Verdict("det", -1)) => NoRecognition

\* C13 witness: one request has failed in the region detector and another
\* in the text detector.
C13_Witness ==
    \E r1, r2 \in Requests :
        /\ Did(r1, Verdict("yolo", -1)) /\ pc[r1] = "returned"
        /\ Did(r2, Verdict("det", -1)) /\ pc[r2] = "returned"

\* C16: when the precision flag of a request is false, its result tree
\* never has a key ending in _sec, the precision recognizer is never
\* invoked for it and no pool task is submitted for it.
C16_NoPrecisionWithoutFlag ==
    \A r \in Requests :
        ~prcision[r]
          => /\ ~HasKey(result[r], PrecisionKeys)
             /\ ~Did(r, Begin("new")) /\ ~Did(r, Committed)
             /\ Count(enq, r) = 0 /\ fu[r] = FuInvalid
             /\ \A w \in Workers : wtask[w] # r

\* C16 witness: a request without the flag has returned true with the
\* baseline sections merged, next to a request with the flag whose
\* precision sections were merged.
C16_Witness ==
    \E r1, r2 \in Requests :
        /\ ~prcision[r1] /\ pc[r1] = "returned" /\ retval[r1] = TRUE
        /\ HasKey(result[r1], BaselineKeys)
        /\ prcision[r2] /\ HasKey(result[r2], PrecisionKeys)

\* C20: requests are serialized per resource only: a request that is about
\* to take a resource lock can take it whenever that lock is free, whatever
\* other resources other requests are using.
C20_WaitsOnlyForOwnResource ==
    \A r \in Requests :
        /\ (pc[r] = "yolo_lock" /\ mutex["m_det_yolov5_mutex"] = NoThread)
             => ENABLED YoloLock(r)
        /\ (pc[r] = "det_lock" /\ mutex["m_det_new_mutex"] = NoThread)
             => ENABLED DetLock(r)
        /\ (pc[r] = "old_lock" /\ mutex["m_rec_old_mutex"] = NoThread)
             => ENABLED OldLock(r)

\* C20 witness: one request is inside the call of one resource while
\* another request is inside the call of a different resource, and a third
\* resource is in use by the pool worker at the same instant.
C20_Witness ==
    \E r1, r2 \in Requests : \E a, b \in Resources :
        /\ r1 # r2 /\ a # b
        /\ ReqThread(r1) \in inCall[a]
        /\ ReqThread(r2) \in inCall[b]
        /\ inCall["m_rec_new"] # {}

\* ImageInterface::HandleRequest: the data member of the response to the
\* request, once handler (which is parse_task) has returned
ResponseData(r) == IF retval[r] = TRUE THEN result[r] ELSE JNull

\* C14 (the claim as stated): whenever a request ends in failure, the
\* result tree handed back by parse_task holds no section written by the
\* merger, and the response carries no data.
C14_NoPartialResultOnFailure ==
    \A r \in Requests :
        (pc[r] = "returned" /\ retval[r] = FALSE)
          => (result[r] = JNull /\ ResponseData(r) = JNull)

\* whether key k occurs anywhere inside the value v
RECURSIVE AnyKey(_, _)
AnyKey(v, keys) ==
    CASE v.t = "obj" -> \E k \in DOMAIN v.v : k \in keys \/ AnyKey(v.v[k], keys)
      [] v.t = "arr" -> \E i \in DOMAIN v.v : AnyKey(v.v[i], keys)
      [] OTHER       -> FALSE

CharKeys == {"title_char_info", "line_char_info"}

RECURSIVE Flatten(_)
Flatten(ss) == IF Len(ss) = 0 THEN <<>> ELSE Head(ss) \o Flatten(Tail(ss))

\* a text that is null or the empty string
EmptyText(t) == t = JNull \/ t = JStr("")

\* the lines of the input root, paragraph after paragraph, and those among
\* them whose text is not empty
InLines(root) ==
    Flatten([i \in 1..Size(Get(root, "texts")) |->
               Elems(Index(Get(root, "texts"), i))])
KeptLines(root) ==
    SelectSeq(InLines(root), LAMBDA l : ~EmptyText(Get(l, "text")))
\* the input paragraphs with at least one line whose text is not empty
KeptParas(root) ==
    {i \in 1..Size(Get(root, "texts")) :
        \E j \in 1..Size(Index(Get(root, "texts"), i)) :
            ~EmptyText(Get(Index(Index(Get(root, "texts"), i), j), "text"))}

\* the paragraph entries and the line entries of an output tree
OutParas(tree, essay) == Elems(Get(Get(tree, essay), "para_ocr_result"))
OutLines(tree, essay) ==
    Flatten([i \in 1..Len(OutParas(tree, essay)) |->
               Elems(OutParas(tree, essay)[i])])

\* the step in which request r merges its baseline output (line 264), the
\* step in which it merges its precision output (line 269), and whether
\* the parse_result of the step returned true
MergesOld(r) == pc[r] = "merge" /\ pc'[r] # "merge" /\ frame[r].ret = 0
MergesNew(r) == pc[r] = "merge_sec" /\ pc'[r] = "returned"
OldParsed(r) == ~(pc'[r] = "returned" /\ retval'[r] = FALSE)
NewParsed(r) == retval'[r] = TRUE

\* every emitted title or line whose input carries character data has its
\* character key, with one entry per character
CharInfoFor(root, tree, title, essay) ==
    LET ti == Get(root, "title")
        to == Get(tree, title)
        kept == KeptLines(root)
        out == OutLines(tree, essay)
    IN  /\ (Has(to, "title_ocr_result") /\ Size(Get(ti, "char_pos")) > 0)
             => /\ Has(to, "title_char_info")
                /\ Size(Get(to, "title_char_info")) = Size(Get(ti, "char_pos"))
        /\ Len(out) = Len(kept)
        /\ \A i \in 1..Len(out) :
              Size(Get(kept[i], "char_pos")) > 0
                => /\ Has(out[i], "line_char_info")
                   /\ Size(Get(out[i], "line_char_info"))
                        = Size(Get(kept[i], "char_pos"))

\* C15: merging with details=false yields a tree with no character-level
\* key (title_char_info, line_char_info) anywhere, and merging the same
\* kind of output with details=true yields those keys for every emitted
\* title and line whose input carries character data.
C15_DetailsGateCharInfo ==
    [][\A r \in Requests :
         /\ (MergesOld(r) \/ MergesNew(r)) /\ ~details[r]
              => ~AnyKey(result'[r], CharKeys)
         /\ MergesOld(r) /\ OldParsed(r) /\ details[r]
              => CharInfoFor(frame[r].old_result.root, result'[r],
                             "title_info", "essay_info")
         /\ MergesNew(r) /\ NewParsed(r) /\ details[r]
              => CharInfoFor(frame[r].new_result.root, result'[r],
                             "title_info_sec", "essay_info_sec")]_vars

\* C15 witness: the baseline output of a request with details carried
\* character data for its title and for a line, and both were merged with
\* their character keys.
C15_Witness ==
    \E r \in Requests :
        /\ pc[r] = "merge_sec" /\ details[r]
        /\ Size(Get(Get(frame[r].old_result.root, "title"), "char_pos")) > 0
        /\ Size(Get(Get(result[r], "title_info"), "title_char_info")) > 0
        /\ \E i \in 1..Len(OutLines(result[r], "essay_info")) :
              /\ Size(Get(KeptLines(frame[r].old_result.root)[i], "char_pos")) > 0
              /\ Size(Get(OutLines(result[r], "essay_info")[i],
                          "line_char_info")) > 0

\* the entries of one merge: a title whose text is missing, null or empty
\* leaves the title section null; no line entry has an empty text and no
\* paragraph entry is empty; and when the merge succeeded the line entries
\* are the input lines with a text, in order, and there is one paragraph
\* entry per input paragraph that has such a line
EntriesFor(root, tree, title, essay, parsed) ==
    LET out == OutLines(tree, essay)
        kept == KeptLines(root)
    IN  /\ EmptyText(Get(Get(root, "title"), "text"))
             => Get(tree, title) = JNull
        /\ Has(Get(tree, title), "title_ocr_result")
             => ~EmptyText(Get(Get(tree, title), "title_ocr_result"))
        /\ \A i \in 1..Len(out) : ~EmptyText(Get(out[i], "line_ocr_result"))
        /\ \A i \in 1..Len(OutParas(tree, essay)) :
              Size(OutParas(tree, essay)[i]) > 0
        /\ parsed
             => /\ Len(out) = Len(kept)
                /\ \A i \in 1..Len(out) :
                      Get(out[i], "line_ocr_result") = Get(kept[i], "text")
                /\ Len(OutParas(tree, essay)) = Cardinality(KeptParas(root))

\* C17: empty entries of a recognizer output never appear in the merged
\* output: a title whose text is missing, null or empty yields no title
\* entry (its section holds nothing), a line whose text is null or empty
\* yields no line entry, and a paragraph all of whose lines are empty
\* yields no paragraph entry.
C17_EmptyEntriesFiltered ==
    [][\A r \in Requests :
         /\ MergesOld(r)
              => EntriesFor(frame[r].old_result.root, result'[r],
                            "title_info", "essay_info", OldParsed(r))
         /\ MergesNew(r)
              => EntriesFor(frame[r].new_result.root, result'[r],
                            "title_info_sec", "essay_info_sec", NewParsed(r))]_vars

\* C17 witness: the baseline output had a title with an empty text, a
\* paragraph of empty lines only and a paragraph with an empty line and a
\* line with a text; the merged tree holds a null title section and one
\* paragraph entry of one line.
C17_Witness ==
    \E r \in Requests :
        LET root == frame[r].old_result.root
        IN  /\ pc[r] = "merge_sec"
            /\ Get(Get(root, "title"), "text") = JStr("")
            /\ Size(Get(root, "texts")) = 2
            /\ Len(InLines(root)) = 4
            /\ Len(KeptLines(root)) = 1
            /\ Has(result[r], "title_info")
            /\ Get(result[r], "title_info") = JNull
            /\ Len(OutParas(result[r], "essay_info")) = 1
            /\ Len(OutLines(result[r], "essay_info")) = 1

\* outside the given keys the two trees have the same members with the
\* same values
SameOutside(before, after, keys) ==
    \A k \in (DOMAIN Members(before) \cup DOMAIN Members(after)) \ keys :
        Has(before, k) /\ Has(after, k) /\ Get(before, k) = Get(after, k)

\* C18: baseline and precision results occupy disjoint keys of the result
\* tree: merging the baseline output writes only title_info and
\* essay_info, merging the precision output writes only title_info_sec and
\* essay_info_sec, and merging the precision output leaves everything the
\* baseline merge wrote unchanged.
C18_DisjointSections ==
    [][\A r \in Requests :
         /\ MergesOld(r)
              => /\ SameOutside(result[r], result'[r], BaselineKeys)
                 /\ ~HasKey(result'[r], PrecisionKeys)
         /\ MergesNew(r)
              => /\ SameOutside(result[r], result'[r], PrecisionKeys)
                 /\ \A k \in BaselineKeys :
                       Has(result'[r], k) = Has(result[r], k)]_vars

\* C18 witness: a request has returned true with all four sections, the
\* baseline and the precision essays holding different entries.
C18_Witness ==
    \E r \in Requests :
        /\ pc[r] = "returned" /\ retval[r] = TRUE
        /\ \A k \in BaselineKeys \cup PrecisionKeys : Get(result[r], k) # JNull
        /\ Get(result[r], "essay_info") # Get(result[r], "essay_info_sec")
        /\ Get(result[r], "title_info") # Get(result[r], "title_info_sec")

\* a text the reader cannot parse into a tree
Unparsable(str) == str.kind = "invalid"

\* C19: whenever a recognizer returns status 0 but its output text cannot
\* be parsed into a tree (a non-empty text the reader rejects), the request
\* fails: no parse_task returns true with such a text in old_result, or,
\* with precision requested, in new_result.
C19_UnparsableOutputFails ==
    [][\A r \in Requests :
         (pc[r] # "returned" /\ pc'[r] = "returned" /\ retval'[r] = TRUE)
           => /\ ~Unparsable(frame[r].old_result)
              /\ prcision[r] => ~Unparsable(frame[r].new_result)]_vars

\* C19 witness: a request whose baseline recognizer returned 0 has failed
\* in the merge of the baseline text, and a request whose two recognizers
\* returned 0 has failed in the merge of the precision text, after its
\* baseline text was merged.
C19_Witness ==
    \E r1, r2 \in Requests :
        /\ pc[r1] = "returned" /\ retval[r1] = FALSE /\ ~prcision[r1]
        /\ Did(r1, Merging) /\ Did(r1, Verdict("old", 0))
        /\ pc[r2] = "returned" /\ retval[r2] = FALSE /\ prcision[r2]
        /\ Did(r2, Merging) /\ Did(r2, Verdict("old", 0))
        /\ Did(r2, Verdict("new", 0))
        /\ HasKey(result[r2], BaselineKeys)

\* C21: with the precision flag set and a non-empty bundle, the foreground
\* thread goes on to the baseline call without waiting for the precision
\* task: once the task is submitted and until the baseline call begins,
\* the request is at the baseline lock or call, and the only thing it can
\* wait for is the baseline recognizer's mutex.
C21_BaselineDoesNotWaitForPrecision ==
    \A r \in Requests :
        /\ pc[r] = "commit_notify" => ENABLED CommitNotify(r)
        /\ (Did(r, Committed) /\ pc[r] # "commit_notify" /\ ~Did(r, Begin("old")))
             => /\ pc[r] \in {"old_lock", "old_call"}
                /\ pc[r] = "old_call" => ENABLED OldCall(r)
                /\ (pc[r] = "old_lock" /\ mutex["m_rec_old_mutex"] = NoThread)
                     => ENABLED OldLock(r)

\* C21 witness: the baseline call and the precision call of the same
\* request are both in progress.
C21_Witness ==
    \E r \in Requests : \E w \in Workers :
        /\ ReqThread(r) \in inCall["m_rec_old"]
        /\ wtask[w] = r /\ WrkThread(w) \in inCall["m_rec_new"]

\* the stage events of each resource
StageOf(res) ==
    CASE res = "m_yolov5"  -> "yolo"
      [] res = "m_det"     -> "det"
      [] res = "m_rec_old" -> "old"
      [] res = "m_rec_new" -> "new"

\* the request a thread inside a resource call works for
RequestOf(t) ==
    IF \E r \in Requests : t = ReqThread(r)
      THEN CHOOSE r \in Requests : t = ReqThread(r)
      ELSE wtask[CHOOSE w \in Workers : t = WrkThread(w)]

\* C22: no stage is retried or cancelled: a call of a resource begins for
\* a request only if none began for it before, a call in progress ends
\* only by returning, the baseline call of a precision request begins only
\* after its precision task was submitted, and a precision request with a
\* non-empty bundle returns only after both recognizer calls have ended.
C22_NoRetryNoCancel ==
    [][/\ \A res \in Resources :
            /\ \A t \in inCall'[res] \ inCall[res] :
                  ~Did(RequestOf(t), Begin(StageOf(res)))
            /\ \A t \in inCall[res] \ inCall'[res] :
                  End(StageOf(res)) \in log'[RequestOf(t)]
       /\ \A r \in Requests :
            /\ (pc[r] = "old_call" /\ pc'[r] = "old_in" /\ prcision[r])
                 => Did(r, Committed)
            /\ (pc[r] \notin {"returned", "bundle"} /\ pc'[r] = "returned"
                   /\ prcision[r] /\ Did(r, Normalized))
                 => (End("old") \in log'[r] /\ End("new") \in log'[r])]_vars

\* C22 witness: a precision request has returned after both of its
\* recognizer calls ended with a non-zero status.
C22_Witness ==
    \E r \in Requests :
        /\ pc[r] = "returned" /\ prcision[r]
        /\ Did(r, End("old")) /\ Did(r, Verdict("old", -1))
        /\ Did(r, End("new")) /\ Did(r, Verdict("new", -1))

\* the request returns false at this step
FailsNow(r) == pc'[r] = "returned" /\ retval'[r] = FALSE

\* C23: every stage is treated as failed exactly when its status is not 0,
\* positive values included, and every non-zero status has the same
\* outcome: parse_task returns false with the result tree untouched.
C23_NonZeroIsFailure ==
    [][\A r \in Requests :
         /\ (pc[r] = "yolo_in" /\ pc'[r] # "yolo_in")
              => (Verdict("yolo", -1) \in log'[r] <=> FailsNow(r))
         /\ (pc[r] = "det_in" /\ pc'[r] # "det_in")
              => (Verdict("det", -1) \in log'[r] <=> FailsNow(r))
         /\ (pc[r] = "join" /\ pc'[r] # "join")
              => (fu[r][2] # 0 <=> FailsNow(r))
         /\ (pc[r] = "merge" /\ pc'[r] # "merge" /\ frame[r].ret # 0)
              => FailsNow(r)
         /\ (pc[r] \in {"yolo_in", "det_in", "join"} /\ FailsNow(r))
              => result'[r] = result[r]
         /\ (pc[r] = "merge" /\ frame[r].ret # 0) => result'[r] = result[r]]_vars

\* C23 witness: a request has failed on its baseline status, and another
\* one is about to join with a positive status from both recognizers.
C23_Witness ==
    \E r1, r2 \in Requests :
        /\ pc[r1] = "returned" /\ retval[r1] = FALSE
        /\ Did(r1, Verdict("old", -1)) /\ Did(r1, Merging)
        /\ pc[r2] = "join" /\ fu[r2] = FuReady(1) /\ frame[r2].ret = 1

C26_BundleReadOnlyWhileRecognizing ==
    [][\A r \in Requests :
         /\ pc[r] = "commit" => frame[r].depth = "8U"
         /\ (Did(r, Committed) /\ pc'[r] # "returned")
              => /\ frame'[r].img_list = frame[r].img_list
                 /\ frame'[r].text_poly = frame[r].text_poly
                 /\ frame'[r].depth = frame[r].depth]_vars

\* C26 witness: a request waits at the join while its precision task runs
\* on the converted crops.
C26_Witness ==
    \E r \in Requests : \E w \in Workers :
        /\ pc[r] = "join" /\ fu[r] = FuPending
        /\ wtask[w] = r /\ wpc[w] = "intask"
        /\ frame[r].depth = "8U" /\ frame[r].img_list > 0

\* C24: when every resource call returns and scheduling is fair, each of
\* the concurrent requests, with or without precision, eventually has
\* returned from parse_task (true: Done, false: Failed) and stays so: none
\* blocks forever on a resource lock or on the join of its precision task.
C24_EveryRequestEnds ==
    \A r \in Requests : <>[](pc[r] = "returned")

\* C24 witness: two requests wait at the join of their precision tasks,
\* one task running on the only worker and the other still queued.
C24_Witness ==
    \E r1, r2 \in Requests : \E w \in Workers :
        /\ pc[r1] = "join" /\ Count(tasks, r1) = 1
        /\ pc[r2] = "join" /\ wtask[w] = r2 /\ wpc[w] = "intask"

\* ------------------------------------------------ cppkafka BufferedProducer
\* The producer in its default configuration: max_buffer_size_ -1 (adding a
\* message never flushes), has_internal_data_ false (no tracker, no retry, so
\* retry_messages_ stays empty), no callbacks set.  pending_acks_ is a
\* std::atomic<size_t>; it is kept as the integer congruent to it modulo
\* 2^64 that is nearest to 0, so that "> 0" on the size_t is "# 0" here.
serviceVars ==
    <<pc, details, prcision, env, http, frame, result, fu, retval, mutex, log,
      inCall, poolVars, clientVars>>

At(t, l) == thr[t].at = l
Move(t, l) == thr' = [thr EXCEPT ![t].at = l]

\* add_message with do_add_message (lines 803-811): the message is buffered
AddMessage(t) ==
    /\ At(t, "idle") /\ made < MaxMsgs
    /\ messages_' = messages_ + 1
    /\ made' = made + 1
    /\ UNCHANGED <<pending_acks_, outq, thr, serviceVars>>

\* produce(builder) (lines 592-602): async_produce with throw_on_error
ProduceStart(t) ==
    /\ At(t, "idle") /\ made < MaxMsgs
    /\ made' = made + 1
    /\ thr' = [thr EXCEPT ![t].op = "produce", ![t].at = "produce"]
    /\ UNCHANGED <<pending_acks_, messages_, outq, serviceVars>>

\* where a thread goes when the message it was producing is finished
\* with, sent or dropped, inside async_flush (lines 638-641)
NextBuffered(t) ==
    thr' = [thr EXCEPT ![t].flush_queue = @ - 1, ![t].at = "aflush_loop"]

\* produce_message line 924: producer_.produce takes the message, or
\* throws queue full (lines 932-933), or throws another error, which
\* async_produce rethrows to the caller of produce, swallows inside
\* async_flush (lines 963-968), and which leaves sync_produce and
\* flush(timeout, true) as an exception
ProducerProduce(t) ==
    /\ At(t, "produce")
    /\ \/ outq' = outq + 1 /\ Move(t, "inc")
       \/ outq' = outq /\ Move(t, "qfull_poll")
       \/ /\ outq' = outq
          /\ IF thr[t].op = "flush_async" THEN NextBuffered(t)
                                          ELSE Move(t, "threw")
    /\ UNCHANGED <<pending_acks_, messages_, made, serviceVars>>

\* line 934: producer_.poll() returns and produce_message tries again
PollReturn(t) ==
    /\ At(t, "qfull_poll")
    /\ Move(t, "produce")
    /\ UNCHANGED <<pending_acks_, messages_, outq, made, serviceVars>>

\* line 928: ++pending_acks_, and produce_message returns: to the caller
\* of produce, to the loop of async_flush, or into the wait_for_acks() of
\* sync_produce (lines 619-621)
Increment(t) ==
    /\ At(t, "inc")
    /\ pending_acks_' = pending_acks_ + 1
    /\ CASE thr[t].op = "produce"     -> Move(t, "done")
         [] thr[t].op = "flush_async" -> NextBuffered(t)
         [] thr[t].op = "flush_sync"  -> Move(t, "wait_test")
    /\ UNCHANGED <<messages_, outq, made, serviceVars>>

\* the calls of producer_ inside which delivery reports are dispatched
Serving == {"qfull_poll", "wait_flush", "zero_flush", "twait_flush"}

\* the thread inside producer_.poll or producer_.flush dispatches the
\* report of one message: on_delivery_report is entered (line 987)
DeliveryReport(t) ==
    /\ thr[t].at \in Serving /\ outq > 0
    /\ outq' = outq - 1
    /\ thr' = [thr EXCEPT ![t].cbret = thr[t].at, ![t].at = "cb_check"]
    /\ UNCHANGED <<pending_acks_, messages_, made, serviceVars>>

\* line 1031: the test of pending_acks_ > 0
ReportCheck(t) ==
    /\ At(t, "cb_check")
    /\ Move(t, IF pending_acks_ # 0 THEN "cb_dec" ELSE thr[t].cbret)
    /\ UNCHANGED <<pending_acks_, messages_, outq, made, serviceVars>>

\* line 1032: --pending_acks_, and on_delivery_report returns
ReportDecrement(t) ==
    /\ At(t, "cb_dec")
    /\ pending_acks_' = pending_acks_ - 1
    /\ Move(t, thr[t].cbret)
    /\ UNCHANGED <<messages_, outq, made, serviceVars>>

\* wait_for_acks() is called by the application
WaitStart(t) ==
    /\ At(t, "idle")
    /\ thr' = [thr EXCEPT ![t].op = "wait", ![t].at = "wait_test"]
    /\ UNCHANGED <<pending_acks_, messages_, outq, made, serviceVars>>

\* wait_for_acks() line 723: the loop test; when it fails the call returns,
\* to the application or to the queue_flusher of flush(timeout, true),
\* which pops the message (line 686)
WaitTest(t) ==
    /\ At(t, "wait_test")
    /\ IF pending_acks_ # 0
         THEN Move(t, "wait_flush")
         ELSE IF thr[t].op = "flush_sync"
                THEN thr' = [thr EXCEPT ![t].flush_queue = @ - 1,
                                        ![t].at = "sync_rem"]
                ELSE thr' = [thr EXCEPT ![t].ret = TRUE, ![t].at = "done"]
    /\ UNCHANGED <<pending_acks_, messages_, outq, made, serviceVars>>

\* lines 724-735: producer_.flush() returns or times out; the loop goes on
WaitFlushReturn(t) ==
    /\ At(t, "wait_flush")
    /\ Move(t, "wait_test")
    /\ UNCHANGED <<pending_acks_, messages_, outq, made, serviceVars>>

\* flush(timeout, preserve_order): the queue is swapped out (lines 676-679,
\* or async_flush lines 633-636 and 643-644)
FlushStart(t) ==
    /\ At(t, "idle")
    /\ \E preserve_order \in BOOLEAN :
         thr' = [thr EXCEPT
                   ![t].op = IF preserve_order THEN "flush_sync"
                                               ELSE "flush_async",
                   ![t].at = IF preserve_order THEN "sync_loop"
                                               ELSE "aflush_loop",
                   ![t].flush_queue = messages_]
    /\ messages_' = 0
    /\ UNCHANGED <<pending_acks_, outq, made, serviceVars>>

\* async_flush lines 638-641 and 645: the next buffered message is
\* produced, or the queue is empty and wait_for_acks(0) is called
AsyncFlushLoop(t) ==
    /\ At(t, "aflush_loop")
    /\ Move(t, IF thr[t].flush_queue > 0 THEN "produce" ELSE "zero_flush")
    /\ UNCHANGED <<pending_acks_, messages_, outq, made, serviceVars>>

\* wait_for_acks(0) of line 645 is over (its result is dropped) and
\* flush calls wait_for_acks(timeout) (line 717)
ZeroFlushReturn(t) ==
    /\ At(t, "zero_flush")
    /\ Move(t, "twait_flush")
    /\ UNCHANGED <<pending_acks_, messages_, outq, made, serviceVars>>

\* wait_for_acks(timeout) lines 744-757: producer_.flush(remaining) returns
\* once nothing is left in producer_, or throws timed out while something
\* is, and then the call returns pending_acks_ == 0 (line 751)
TimedFlushReturn(t) ==
    /\ At(t, "twait_flush")
    /\ IF outq = 0
         THEN Move(t, "twait_test")
         ELSE thr' = [thr EXCEPT ![t].expired = TRUE,
                                 ![t].ret = (pending_acks_ = 0),
                                 ![t].at = "done"]
    /\ UNCHANGED <<pending_acks_, messages_, outq, made, serviceVars>>

\* wait_for_acks(timeout) lines 758-761: the remaining time is computed,
\* the loop goes on while acks are expected and time remains, and the
\* call returns pending_acks_ == 0
TimedWaitTest(t) ==
    /\ At(t, "twait_test")
    /\ \E now \in {thr[t].expired, TRUE} :
         IF pending_acks_ # 0 /\ ~now
           THEN thr' = [thr EXCEPT ![t].at = "twait_flush"]
           ELSE thr' = [thr EXCEPT ![t].expired = now,
                                   ![t].ret = (pending_acks_ = 0),
                                   ![t].at = "done"]
    /\ UNCHANGED <<pending_acks_, messages_, outq, made, serviceVars>>

\* flush(timeout, true) lines 681-694: the front message goes to
\* sync_produce, or both queues are empty and the loop is left
SyncLoop(t) ==
    /\ At(t, "sync_loop")
    /\ Move(t, IF thr[t].flush_queue > 0 THEN "produce" ELSE "reenqueue")
    /\ UNCHANGED <<pending_acks_, messages_, outq, made, serviceVars>>

\* lines 695-698: the remaining time is computed and tested
SyncRemaining(t) ==
    /\ At(t, "sync_rem")
    /\ \E now \in {thr[t].expired, TRUE} :
         thr' = [thr EXCEPT ![t].expired = now,
                            ![t].at = IF now THEN "reenqueue" ELSE "sync_loop"]
    /\ UNCHANGED <<pending_acks_, messages_, outq, made, serviceVars>>

\* lines 700-713: what is left goes back to the front of messages_ and
\* flush returns true (line 713)
Reenqueue(t) ==
    /\ At(t, "reenqueue")
    /\ messages_' = thr[t].flush_queue + messages_
    /\ thr' = [thr EXCEPT ![t].ret = TRUE,
                          ![t].at = "done"]
    /\ UNCHANGED <<pending_acks_, outq, made, serviceVars>>

\* the call is over and the thread is free for the next one
CallOver(t) ==
    /\ thr[t].at \in {"done", "threw"}
    /\ thr' = [thr EXCEPT ![t] = IdleThread]
    /\ UNCHANGED <<pending_acks_, messages_, outq, made, serviceVars>>

\* one step of produce_message
Producing(t) == ProducerProduce(t) \/ PollReturn(t) \/ Increment(t)

\* one step of on_delivery_report
Reporting(t) == DeliveryReport(t) \/ ReportCheck(t) \/ ReportDecrement(t)

\* one step of wait_for_acks, with or without timeout
Waiting(t) ==
    \/ WaitTest(t) \/ WaitFlushReturn(t)
    \/ ZeroFlushReturn(t) \/ TimedFlushReturn(t) \/ TimedWaitTest(t)

\* one step of flush(timeout, preserve_order) outside those
Flushing(t) ==
    \/ FlushStart(t) \/ AsyncFlushLoop(t)
    \/ SyncLoop(t) \/ SyncRemaining(t) \/ Reenqueue(t)

\* The BufferedProducer used by NThreads application threads that create
\* MaxMsgs messages between them; the service is at rest.
ServiceAtRest ==
    /\ InitCoord
    /\ details = [r \in Requests |-> FALSE]
    /\ prcision = [r \in Requests |-> FALSE]
    /\ InitPool(PoolArg)
    /\ env = [statuses |-> {0}, outputs |-> {DocEmpty}]

ProducerInit == ServiceAtRest /\ InitClient

ProducerNext ==
    \E t \in KThreads :
        \/ AddMessage(t) \/ ProduceStart(t) \/ WaitStart(t) \/ CallOver(t)
        \/ Producing(t) \/ Reporting(t) \/ Waiting(t) \/ Flushing(t)

ProducerSpec == ProducerInit /\ [][ProducerNext]_vars

\* ------------------------------------------ ImageInterface::VerifyImageParam
baseVars ==
    <<pc, details, prcision, env, http, frame, result, fu, retval, mutex, log,
      inCall, poolVars, kafkaVars>>

\* lines 48-90 as one call: the flags and the error it leaves
Verify ==
    /\ vip.at = "call"
    /\ LET v == VerifyImageParam(vip.body)
       IN  vip' = [vip EXCEPT !.at = "done", !.error = v.error,
                              !.m_details = v.details,
                              !.m_precision = v.precision]
    /\ UNCHANGED <<baseVars, bp, curl>>

\* VerifyImageParam on every body, with every value the two flags may have
\* kept from before the call.
VerifyInit ==
    /\ ServiceAtRest
    /\ bp = NoCall /\ curl = NoCall
    /\ \E body \in Bodies, d \in BOOLEAN, p \in BOOLEAN :
         vip = [at |-> "call", body |-> body, error |-> "E_OK",
                m_details |-> d, m_precision |-> p]

VerifySpec == VerifyInit /\ [][Verify]_vars

\* ------------------------------------------------------ URLRequest::request
\* largest retry argument of a request
MaxRetry == 3

\* the result of curl_easy_perform and the HTTP status of an attempt
CurlResults == {"CURLE_OK", "CURLE_OTHER"}
HttpCodes == {200, 500}

\* OnWriteData (part_008 lines 28-36): the bytes go to the end of the string
OnWriteData(str, bytes) == str \o bytes

\* lines 45-52: res_code = -1, response = "", the header list
RequestStart ==
    /\ curl.at = "start"
    /\ curl' = [curl EXCEPT !.at = "loop", !.res_code = -1,
                            !.response = <<>>, !.i = 0]
    /\ UNCHANGED <<baseVars, bp, vip>>

\* line 53: i < retry
RequestLoop ==
    /\ curl.at = "loop"
    /\ curl' = [curl EXCEPT !.at = IF curl.i < curl.retry THEN "perform"
                                                           ELSE "end"]
    /\ UNCHANGED <<baseVars, bp, vip>>

\* lines 54-78: one attempt. curl_easy_perform hands the bytes it receives
\* to OnWriteData, with or without success; res_code is read only after
\* CURLE_OK; 200 leaves the loop
RequestPerform ==
    /\ curl.at = "perform"
    /\ \E ret \in CurlResults, code \in HttpCodes, wrote \in BOOLEAN :
         LET bytes == IF wrote THEN <<curl.i + 1>> ELSE <<>>
             res_code == IF ret = "CURLE_OK" THEN code ELSE curl.res_code
         IN  curl' = [curl EXCEPT
                        !.response = OnWriteData(curl.response, bytes),
                        !.res_code = res_code,
                        !.tries = Append(@, [ok |-> ret = "CURLE_OK" /\ code = 200,
                                             bytes |-> bytes]),
                        !.i = IF res_code = 200 THEN @ ELSE @ + 1,
                        !.at = IF res_code = 200 THEN "end" ELSE "loop"]
    /\ UNCHANGED <<baseVars, bp, vip>>

\* lines 79-83: cleanup and the return value
RequestEnd ==
    /\ curl.at = "end"
    /\ curl' = [curl EXCEPT !.at = "done", !.ret = (curl.res_code = 200)]
    /\ UNCHANGED <<baseVars, bp, vip>>

\* URLRequest::request for every retry argument from -1 to MaxRetry, called
\* with an empty or a used response string.
RequestInit ==
    /\ ServiceAtRest
    /\ bp = NoCall /\ vip = NoCall
    /\ \E retry \in -1..MaxRetry, response \in {<<>>, <<0>>} :
         curl = [at |-> "start", retry |-> retry, i |-> 0, res_code |-> -1,
                 response |-> response, ret |-> FALSE, tries |-> <<>>]

RequestNext == RequestStart \/ RequestLoop \/ RequestPerform \/ RequestEnd

RequestSpec == RequestInit /\ [][RequestNext]_vars

\* --------------------------- BufferedProducer: buffer, retries, sync_produce
\* largest max_number_retries_, largest max_buffer_size_, and the number of
\* calls of add_message and sync_produce one producer receives
MaxRetries == 2
MaxBuffer == 2
MaxCalls == 3

\* a message without tracker (add_tracker returned nullptr)
NoTracker == 0 - 1

\* add_tracker (lines 511-522): a tracker holding max_number_retries_
\* retries once internal data is enabled, no tracker otherwise
add_tracker(b) ==
    IF b.has_internal_data_ THEN b.max_number_retries_ ELSE NoTracker

\* tracker && tracker->num_retries_ > 0 (lines 963, 1001), with one retry
\* more than the code grants
RetriesLeftOneMore(t) == t >= 0

\* tracker && tracker->num_retries_ > 0 (lines 963, 1001)
RetriesLeft(t) == t > 0

\* What becomes of one message: producer_.produce refuses it with an error
\* other than queue full, or it is sent and its delivery report says
\* delivered, or failed with the failure callback unset or returning true
\* ("retry"), or failed with the callback returning false ("stop").
Fates(b) ==
    {"refused", "ok", "retry"} \cup (IF b.callback THEN {"stop"} ELSE {})

\* get_buffer_size (lines 772-774)
get_buffer_size(b) == Len(b.messages_) + Len(b.retry_messages_)

\* the trackers, each with one retry less, of the messages of q whose fate
\* is in kinds and that have retries left, in the order of q: what
\* do_add_message(.., Retry, DontFlush) appends for them (lines 964-965 and
\* 1002-1005, 806-809)
RECURSIVE Requeued(_, _, _)
Requeued(q, fate, kinds) ==
    IF q = <<>> THEN <<>>
    ELSE LET rest == Requeued(Tail(q), Tail(fate), kinds)
         IN  IF Head(fate) \in kinds /\ RetriesLeft(Head(q))
             THEN <<Head(q) - 1>> \o rest
             ELSE rest

\* the number of messages of q given up on: ++total_messages_dropped_ with
\* the termination callback (lines 969-972, 1009-1018)
RECURSIVE Dropped(_, _)
Dropped(q, fate) ==
    IF q = <<>> THEN 0
    ELSE (IF \/ Head(fate) = "stop"
             \/ Head(fate) \in {"refused", "retry"} /\ ~RetriesLeft(Head(q))
          THEN 1 ELSE 0) + Dropped(Tail(q), Tail(fate))

\* the number of messages of q delivered: ++total_messages_produced_
\* (line 1024)
RECURSIVE Produced(_, _)
Produced(q, fate) ==
    IF q = <<>> THEN 0
    ELSE (IF Head(fate) = "ok" THEN 1 ELSE 0)
             + Produced(Tail(q), Tail(fate))

\* flush(false) (lines 665-668) with the given fates: async_flush takes the
\* retry queue and then the regular queue, re-enqueues the refused
\* messages as it goes, and wait_for_acks serves the delivery reports of
\* the messages sent, which re-enqueue the failed ones.
flush(b, fate) ==
    LET q == b.retry_messages_ \o b.messages_
        d == Dropped(q, fate)
    IN  [b EXCEPT
           !.messages_ = <<>>,
           !.retry_messages_ = Requeued(q, fate, {"refused"})
                                 \o Requeued(q, fate, {"retry"}),
           !.total_messages_produced_ = @ + Produced(q, fate),
           !.total_messages_dropped_ = @ + d,
           !.terminations = @ + d]

\* max_buffer_size_ >= 0 && max_buffer_size_ <= get_buffer_size()
\* (line 814)
BufferReached(b) ==
    b.max_buffer_size_ >= 0 /\ b.max_buffer_size_ <= get_buffer_size(b)

\* add_message (lines 586-589) with do_add_message(Regular, DoFlush)
\* (lines 801-822) under the sync flush method: the message goes to the end
\* of messages_ and the buffer is flushed when it has reached
\* max_buffer_size_.
do_add_message ==
    /\ bp.at \in {"idle", "returned", "thrown"}
    /\ bp.calls < MaxCalls
    /\ LET b == [bp EXCEPT !.at = "idle", !.calls = @ + 1,
                           !.messages_ = Append(@, add_tracker(bp))]
       IN  IF BufferReached(b)
           THEN \E fate \in [1..get_buffer_size(b) -> Fates(b)] :
                    bp' = [flush(b, fate) EXCEPT !.flushed = TRUE]
           ELSE bp' = [b EXCEPT !.flushed = FALSE]
    /\ UNCHANGED <<baseVars, curl, vip>>

\* sync_produce (lines 605-609): the tracker of the clone
sync_produce ==
    /\ bp.at \in {"idle", "returned", "thrown"}
    /\ bp.calls < MaxCalls
    /\ bp' = [bp EXCEPT !.at = "sync", !.calls = @ + 1,
                        !.tracker = add_tracker(bp), !.tries = <<>>,
                        !.dropped0 = bp.total_messages_dropped_,
                        !.terminations0 = bp.terminations]
    /\ UNCHANGED <<baseVars, curl, vip>>

\* One turn of the loop (lines 611-614, and 619-620 without internal data):
\* produce_message and wait_for_acks, during which on_delivery_report
\* (lines 987-1034) serves the report of the message. A refusal by
\* producer_.produce leaves the call as an exception (line 941).
sync_produce_once ==
    /\ bp.at = "sync"
    /\ \E fate \in Fates(bp) :
         IF fate = "refused"
         THEN bp' = [bp EXCEPT !.at = "thrown"]
         ELSE LET again == fate = "retry" /\ RetriesLeft(bp.tracker)
                  d == IF fate = "ok" \/ again THEN 0 ELSE 1
              IN  bp' = [bp EXCEPT
                     !.at = "sent",
                     !.tries = Append(@, fate),
                     !.tracker = IF again THEN @ - 1 ELSE @,
                     !.should_retry = again,
                     !.total_messages_produced_ =
                         @ + (IF fate = "ok" THEN 1 ELSE 0),
                     !.total_messages_dropped_ = @ + d,
                     !.terminations = @ + d]
    /\ UNCHANGED <<baseVars, curl, vip>>

\* while (should_retry.get()) (line 615); without internal data there is
\* no loop (line 621)
sync_produce_while ==
    /\ bp.at = "sent"
    /\ bp' = [bp EXCEPT !.at = IF bp.has_internal_data_ /\ bp.should_retry
                               THEN "sync" ELSE "returned"]
    /\ UNCHANGED <<baseVars, curl, vip>>

\* A producer as constructed (lines 538-553) and configured once by
\* set_max_number_retries (lines 857-863), set_max_buffer_size (lines
\* 777-782) and set_produce_failure_callback: internal data is enabled by
\* the first positive number of retries and stays enabled.
BufferInit ==
    /\ ServiceAtRest
    /\ curl = NoCall /\ vip = NoCall
    /\ \E h \in BOOLEAN, n \in 0..MaxRetries, m \in (0 - 1)..MaxBuffer,
          c \in BOOLEAN :
         /\ ~h => n = 0
         /\ bp = [at |-> "idle", calls |-> 0, has_internal_data_ |-> h,
                  max_number_retries_ |-> n, max_buffer_size_ |-> m,
                  callback |-> c, messages_ |-> <<>>,
                  retry_messages_ |-> <<>>,
                  total_messages_produced_ |-> 0,
                  total_messages_dropped_ |-> 0, terminations |-> 0,
                  flushed |-> FALSE, tracker |-> NoTracker, tries |-> <<>>,
                  should_retry |-> FALSE, dropped0 |-> 0,
                  terminations0 |-> 0]

BufferNext ==
    \/ do_add_message
    \/ sync_produce
    \/ sync_produce_once
    \/ sync_produce_while

BufferSpec == BufferInit /\ [][BufferNext]_vars

\* events of the pipeline: any call, commit, join or merge of parse_task
PipelineEvents(r) == {e \in log[r] : e[1] # "image"}
Sent(r) == Len(http[r].flow)
ImageFailures == ErrorCodes \ {"E_OK", "E_INTERNAL_ERROR"}

\* C27: every request hands exactly one telemetry record to the publisher:
\* never more than one, none before parse_task is over and the response is
\* written, one once HandleRequest is done, whether the request succeeded,
\* the pipeline failed or the image could not be obtained; the record holds
\* the response and the code of the response.
C27_OneRecordAfterResponse ==
    \A r \in Requests :
        /\ Sent(r) <= 1
        /\ (http[r].at = "done") <=> (Sent(r) = 1)
        /\ Sent(r) = 1 =>
              /\ pc[r] \in {"idle", "returned"}
              /\ http[r].response # NoResponse
              /\ http[r].flow[1].response = http[r].response
              /\ http[r].flow[1].code = http[r].response.code
              /\ http[r].response.code =
                    IF Did(r, ImageResult("E_OK"))
                      THEN HandlerError(retval[r])
                      ELSE http[r].error

\* one request ended with a pipeline failure and another with an image
\* failure, each with its record
C27_Witness ==
    /\ \E r \in Requests :
          /\ Sent(r) = 1 /\ pc[r] = "returned"
          /\ http[r].flow[1].code = "E_INTERNAL_ERROR"
    /\ \E r \in Requests :
          /\ Sent(r) = 1 /\ pc[r] = "idle"
          /\ http[r].flow[1].code \in ImageFailures

\* C28: when HandleImage fails (the body does not parse, a parameter is
\* rejected, the image cannot be fetched or decoded), parse_task is never
\* called, no resource is invoked for the request, and the response holds
\* the code of that failure and null data.
C28_ImageFailureSkipsPipeline ==
    \A r \in Requests : \A c \in ErrorCodes \ {"E_OK"} :
        Did(r, ImageResult(c)) =>
            /\ pc[r] = "idle"
            /\ PipelineEvents(r) = {}
            /\ \A res \in Resources : ReqThread(r) \notin inCall[res]
            /\ fu[r] = FuInvalid
            /\ \A t \in 1..Len(tasks) : tasks[t] # r
            /\ http[r].at \in {"send", "done"} =>
                  http[r].response = [code |-> c, data |-> JNull]

\* a request whose image failed has its response, while another request is
\* inside the pipeline
C28_Witness ==
    \E r, q \in Requests :
        /\ \E c \in ImageFailures : Did(r, ImageResult(c))
        /\ http[r].at = "done"
        /\ http[r].response.code \in ImageFailures
        /\ pc[q] = "old_call"

\* a thread is inside on_delivery_report / inside produce_message
InCallback(t) == thr[t].at \in {"cb_check", "cb_dec"}
InProduce(t) ==
    \/ thr[t].at \in {"produce", "qfull_poll", "inc"}
    \/ InCallback(t) /\ thr[t].cbret = "qfull_poll"
\* produced messages whose delivery report has not been processed yet
Unreported == outq + Cardinality({t \in KThreads : InCallback(t)})
FlushReturned(t) ==
    thr[t].at = "done" /\ thr[t].op \in {"flush_async", "flush_sync"}

\* C29: flush(timeout, preserve_order) returns true only when every message
\* it took from the buffer was sent and, with no other produce call under
\* way, every produced message is acknowledged; when the timeout has expired
\* with messages unsent or unacknowledged it returns false, whatever
\* preserve_order is.
C29_FlushTrueOnlyWhenComplete ==
    \A t \in KThreads :
        FlushReturned(t) =>
            /\ thr[t].ret =>
                 /\ thr[t].flush_queue = 0
                 /\ (\A u \in KThreads : ~InProduce(u)) => Unreported = 0
            /\ (thr[t].expired /\ (thr[t].flush_queue > 0 \/ Unreported > 0))
                 => ~thr[t].ret

\* C30: whenever no produce_message call is in progress, pending_acks_ is
\* the number of produced messages whose delivery report has not been
\* processed, so it is 0 once every produced message has been reported.
C30_CounterIsUnreported ==
    (\A t \in KThreads : ~InProduce(t)) => pending_acks_ = Unreported

\* C33: once the destructor of the pool has been invoked, every worker
\* eventually exits; a worker that waits for a task, or is about to wait,
\* is woken by notify_all and does not stay blocked.
C33_WorkersExitAfterShutdown ==
    (dtor # "alive") ~> (\A w \in Workers : wpc[w] = "exited")

\* C34: with no destructor call and fair scheduling, every task that commit
\* has pushed is eventually popped by a worker and run to its end, and the
\* get() of the request that pushed it returns: no notify_one is lost
\* between the push and the predicate wait of the workers.
C34_AcceptedTaskRuns ==
    \A r \in Requests :
        Did(r, Committed) ~>
            (Count(deq, r) = 1 /\ Did(r, End("new")) /\ Did(r, Joined))

\* C34 witness: a task has been pushed while a worker is blocked in wait,
\* and the notify_one of its commit is still to come.
C34_Witness ==
    \E r \in Requests : \E w \in Workers :
        /\ pc[r] = "commit_notify" /\ Count(tasks, r) = 1
        /\ wpc[w] = "blocked" /\ w \in waiting

\* C35: whatever the number of workers and the order of the commits, a
\* worker pops only from a non-empty queue, the task it takes is one that
\* was queued, no worker has taken that task before, and no other worker
\* holds it.
C35_EachTaskPoppedOnce ==
    [][\A w \in Workers :
          (wpc[w] # "run" /\ wpc'[w] = "run") =>
              /\ tasks # <<>>
              /\ Count(tasks, wtask'[w]) = 1
              /\ Count(tasks', wtask'[w]) = 0
              /\ Count(deq, wtask'[w]) = 0
              /\ Len(tasks') = Len(tasks) - 1
              /\ \A v \in Workers \ {w} : wtask'[v] # wtask'[w]]_vars

\* C35 witness: two workers run the tasks of two requests at once, the
\* task pushed first having been popped by the second worker.
C35_Witness ==
    /\ size >= 2
    /\ wpc[1] = "intask" /\ wpc[2] = "intask"
    /\ wtask[1] # wtask[2]
    /\ enq = <<wtask[2], wtask[1]>>
    /\ deq = enq

\* the locks thread t owns, among the four resource mutexes and m_lock
LocksOf(t) ==
    {m \in Mutexes : mutex[m] = t} \cup (IF m_lock = t THEN {"m_lock"} ELSE {})
Threads == {ReqThread(r) : r \in Requests} \cup {WrkThread(w) : w \in Workers}

\* C36: a thread owns at most one lock among the four resource mutexes and
\* the queue lock of the pool; a request owns none while it commits to the
\* pool, while it is blocked in the get() of its future, or while it waits
\* for a resource mutex, and a worker owns none while it waits for m_lock:
\* no thread waits for a lock while it owns another.
C36_AtMostOneLockHeld ==
    /\ \A t \in Threads : Cardinality(LocksOf(t)) <= 1
    /\ \A r \in Requests :
          pc[r] \in {"commit", "commit_push", "commit_notify", "join",
                     "yolo_lock", "det_lock", "old_lock"}
              => LocksOf(ReqThread(r)) = {}
    /\ \A w \in Workers :
          wpc[w] \in {"lock", "relock", "blocked"} => LocksOf(WrkThread(w)) = {}

\* C36 witness: one request is blocked at the join while its task waits in
\* the queue, the worker owns m_lock, and another request owns the mutex
\* of the baseline recognizer.
C36_Witness ==
    \E r, q \in Requests : \E w \in Workers :
        /\ pc[r] = "join" /\ Count(tasks, r) = 1
        /\ m_lock = WrkThread(w)
        /\ pc[q] = "old_call" /\ LocksOf(ReqThread(q)) = {"m_rec_old_mutex"}

\* a step of worker w that reads or writes stoped, tasks, m_lock or cv_task
PoolAccess(w) ==
    WorkerTop(w) \/ WorkerLock(w) \/ WorkerLocked(w) \/ WorkerWait(w)

\* C37: once the destructor of the pool has returned, no worker is blocked
\* inside cv_task.wait and no worker takes a step that reads or writes the
\* stop flag, the queue, m_lock or cv_task.
C37_NoAccessAfterDestructor ==
    [][dtor = "done" =>
          \A w \in Workers : wpc[w] # "blocked" /\ ~PoolAccess(w)]_vars

\* C38: a recognizer that returned 0 with an empty text is a success with
\* nothing to merge: the merge of an empty baseline text does not fail and
\* writes no baseline section, the merge of an empty precision text returns
\* true and writes no precision section, whereas a non-empty text that the
\* reader rejects makes the request fail.
C38_EmptyTextIsSuccess ==
    [][\A r \in Requests :
         /\ (pc[r] = "merge" /\ pc'[r] # "merge" /\ frame[r].ret = 0
                /\ frame[r].old_result = DocEmpty)
              => /\ result'[r] = result[r]
                 /\ ~HasKey(result'[r], BaselineKeys)
                 /\ IF prcision[r] THEN pc'[r] = "merge_sec"
                                   ELSE pc'[r] = "returned" /\ retval'[r] = TRUE
         /\ (pc[r] = "merge_sec" /\ pc'[r] # "merge_sec"
                /\ frame[r].new_result = DocEmpty)
              => /\ result'[r] = result[r]
                 /\ ~HasKey(result'[r], PrecisionKeys)
                 /\ pc'[r] = "returned" /\ retval'[r] = TRUE
         /\ (pc[r] = "merge_sec" /\ pc'[r] # "merge_sec"
                /\ frame[r].new_result = DocInvalid)
              => pc'[r] = "returned" /\ retval'[r] = FALSE]_vars

\* C38 witness: a request with precision has succeeded with the baseline
\* sections and no precision section (its precision text was empty), and
\* a request without precision has succeeded with an empty tree after the
\* merge of an empty baseline text.
C38_Witness ==
    \E r1, r2 \in Requests :
        /\ pc[r1] = "returned" /\ retval[r1] = TRUE /\ prcision[r1]
        /\ Did(r1, Verdict("new", 0)) /\ Did(r1, Merging)
        /\ HasKey(result[r1], BaselineKeys)
        /\ ~HasKey(result[r1], PrecisionKeys)
        /\ pc[r2] = "returned" /\ retval[r2] = TRUE /\ ~prcision[r2]
        /\ Did(r2, Merging) /\ result[r2] = JNull

\* C39: request makes at most retry attempts (none when retry <= 0), makes
\* none after an attempt that yielded HTTP 200, returns true exactly when
\* an attempt yielded 200, and when it returns true the response string
\* holds the bytes of the successful attempt only.
C39_RetryUntilOk ==
    curl.at = "done" =>
        LET n == Len(curl.tries)
        IN  /\ n <= (IF curl.retry > 0 THEN curl.retry ELSE 0)
            /\ \A k \in 1..(n - 1) : ~curl.tries[k].ok
            /\ curl.ret <=> (\E k \in 1..n : curl.tries[k].ok)
            /\ curl.ret => curl.response = curl.tries[n].bytes

\* C40: after a validation each flag is true only if the body holds it as
\* the boolean true, whatever the flag was before; and a body whose images
\* are accepted and whose details or precision member is not a boolean is
\* rejected as an unknown request.
C40_FlagsBooleanOrRejected ==
    vip.at = "done" =>
        /\ vip.m_details => vip.body.details = "true"
        /\ vip.m_precision => vip.body.precision = "true"
        /\ (vip.error = "E_OK" /\ vip.body.details = "true") => vip.m_details
        /\ (vip.error = "E_OK" /\ vip.body.precision = "true")
             => vip.m_precision
        /\ (vip.body.details = "other" \/ vip.body.precision = "other")
             => vip.error # "E_OK"

\* the messages a call of sync_produce has counted as dropped, and the
\* termination callbacks it has invoked
DroppedInCall == bp.total_messages_dropped_ - bp.dropped0
TerminationsInCall == bp.terminations - bp.terminations0

\* C31: sync_produce sends its message at most max_number_retries + 1
\* times; every send but the last failed with the failure callback unset
\* or returning true and with retries left, so it stops at the first
\* delivery, at the first false of the callback and when no retry is left;
\* a call that returns without a delivery has counted the message as
\* dropped once and invoked the termination callback once, and a call that
\* returns after a delivery has done neither.
C31_SyncProduceRetries ==
    bp.at \in {"sync", "sent", "returned", "thrown"} =>
        LET n == Len(bp.tries)
        IN  /\ n <= bp.max_number_retries_ + 1
            /\ \A k \in 1..(n - 1) : bp.tries[k] = "retry"
            /\ bp.at \in {"sync", "thrown"} =>
                 /\ \A k \in 1..n : bp.tries[k] = "retry"
                 /\ DroppedInCall = 0 /\ TerminationsInCall = 0
            /\ bp.at = "returned" =>
                 /\ n >= 1
                 /\ bp.tries[n] = "ok" =>
                      DroppedInCall = 0 /\ TerminationsInCall = 0
                 /\ bp.tries[n] # "ok" =>
                      /\ DroppedInCall = 1 /\ TerminationsInCall = 1
                      /\ bp.tries[n] = "stop"
                           \/ n = bp.max_number_retries_ + 1

\* C31 witness: a producer with the largest number of retries and earlier
\* drops has returned from a sync_produce that sent the message once more
\* than the number of retries, every send having failed, and has counted
\* one more dropped message.
C31_Witness ==
    /\ bp.at = "returned"
    /\ bp.max_number_retries_ = MaxRetries
    /\ Len(bp.tries) = MaxRetries + 1
    /\ bp.tries[MaxRetries + 1] = "retry"
    /\ bp.dropped0 > 0
    /\ DroppedInCall = 1

\* C32: add_message flushes exactly when max_buffer_size_ is not negative
\* and the buffer, the new message included, has reached it: never with
\* -1, always with 0, and with n > 0 the buffer holds at most n messages
\* when add_message has returned.
C32_AutoFlushAtMaxBufferSize ==
    [][(bp'.calls = bp.calls + 1 /\ bp'.at = "idle") =>
          LET n == bp.max_buffer_size_
          IN  /\ bp'.flushed <=> (n >= 0 /\ n <= get_buffer_size(bp) + 1)
              /\ bp'.flushed <=> bp'.messages_ = <<>>
              /\ n = 0 - 1 => ~bp'.flushed
              /\ n = 0 => bp'.flushed
              /\ n > 0 => get_buffer_size(bp') <= n]_vars

====
